---------------------------- MODULE Spec2Model ----------------------------
(***************************************************************************)
(* Verification model of armory-drive-log: the checkpoint codec            *)
(* (api/checkpoint.go) and the proof-bundle verifier (verify.Bundle).      *)
(*                                                                         *)
(* Byte strings are sequences of integers 0..255.  SHA-256 and Ed25519 are *)
(* library code; they are modelled by small deterministic stand-ins that   *)
(* keep the properties the verifier relies on (fixed digest length, domain *)
(* separation by the leading 0x00 / 0x01 byte, a signature verifies only   *)
(* under the key that made it).                                            *)
(***************************************************************************)
EXTENDS Integers, Sequences, FiniteSets, TLC

(***************************************************************************)
(* Bounds of the model.                                                    *)
(***************************************************************************)
\* Longest leaf-hash list a bundle carries.
MaxLeaves == 3

(***************************************************************************)
(* Bytes.                                                                  *)
(***************************************************************************)
NL == <<10>>

\* bytes.Equal
BytesEqual(a, b) == a = b

\* Index of the first newline of data, 0 if there is none.
IndexNL(data) ==
    IF \E k \in 1..Len(data) : data[k] = 10
    THEN CHOOSE k \in 1..Len(data) :
            data[k] = 10 /\ \A j \in 1..(k - 1) : data[j] # 10
    ELSE 0

\* Mutant: the split goes on past the n-th part.
RECURSIVE SplitNAll(_, _)
SplitNAll(data, n) ==
    LET p == IndexNL(data)
    IN  IF p = 0 THEN <<data>>
        ELSE <<SubSeq(data, 1, p - 1)>> \o SplitNAll(SubSeq(data, p + 1, Len(data)), n)

\* bytes.SplitN(data, "\n", n): at most n parts, the last one unsplit.
RECURSIVE SplitN(_, _)
SplitN(data, n) ==
    LET p == IndexNL(data)
    IN  IF n <= 1 \/ p = 0 THEN <<data>>
        ELSE <<SubSeq(data, 1, p - 1)>> \o SplitN(SubSeq(data, p + 1, Len(data)), n - 1)

(***************************************************************************)
(* strconv.ParseUint(s, 10, 64).  The overflow test compares numerals, so  *)
(* it is exact for any length of input.  The model's integers are 32 bits  *)
(* wide: a value below 10^9 is an integer of the model, a larger one is    *)
(* kept as its canonical numeral (its digits without leading zeros).       *)
(***************************************************************************)
\* Mutant: a minus sign passes for a digit.
IsDigitOrMinus(c) == (c >= 48 /\ c <= 57) \/ c = 45

IsDigit(c) == c >= 48 /\ c <= 57

RECURSIVE StripZeros(_)
StripZeros(s) ==
    IF Len(s) > 1 /\ s[1] = 48 THEN StripZeros(Tail(s)) ELSE s

\* "18446744073709551615", the numeral of 2^64 - 1.
MaxUint64Numeral ==
    <<49,56,52,52,54,55,52,52,48,55,51,55,48,57,53,53,49,54,49,53>>

\* a > b for numerals of equal length.
RECURSIVE NumeralGreater(_, _)
NumeralGreater(a, b) ==
    IF Len(a) = 0 THEN FALSE
    ELSE IF a[1] # b[1] THEN a[1] > b[1]
    ELSE NumeralGreater(Tail(a), Tail(b))

RECURSIVE NumeralValue(_, _)
NumeralValue(s, acc) ==
    IF Len(s) = 0 THEN acc ELSE NumeralValue(Tail(s), acc * 10 + (s[1] - 48))

ParseUint(s) ==
    IF Len(s) = 0 \/ \E k \in 1..Len(s) : ~IsDigit(s[k])
    THEN [ok |-> FALSE, val |-> 0]
    ELSE LET z == StripZeros(s)
         IN  IF Len(z) > 20 \/ (Len(z) = 20 /\ NumeralGreater(z, MaxUint64Numeral))
             THEN [ok |-> FALSE, val |-> 0]
             ELSE [ok |-> TRUE,
                   val |-> IF Len(z) <= 9 THEN NumeralValue(z, 0) ELSE z]

\* fmt.Sprintf("%d", n) for n >= 0.
RECURSIVE FormatUint(_)
FormatUint(n) ==
    IF n < 10 THEN <<48 + n>> ELSE FormatUint(n \div 10) \o <<48 + (n % 10)>>

(***************************************************************************)
(* encoding/base64, StdEncoding (padded, standard alphabet).               *)
(***************************************************************************)
B64Char(v) ==
    IF v < 26 THEN 65 + v
    ELSE IF v < 52 THEN 97 + (v - 26)
    ELSE IF v < 62 THEN 48 + (v - 52)
    ELSE IF v = 62 THEN 43
    ELSE 47

\* Mutant: the URL-safe alphabet, '-' and '_' for '+' and '/'.
B64ValURL(c) ==
    IF c >= 65 /\ c <= 90 THEN c - 65
    ELSE IF c >= 97 /\ c <= 122 THEN c - 97 + 26
    ELSE IF c >= 48 /\ c <= 57 THEN c - 48 + 52
    ELSE IF c = 45 THEN 62
    ELSE IF c = 95 THEN 63
    ELSE -1

\* Value of an alphabet character, -1 for any other byte.
B64Val(c) ==
    IF c >= 65 /\ c <= 90 THEN c - 65
    ELSE IF c >= 97 /\ c <= 122 THEN c - 97 + 26
    ELSE IF c >= 48 /\ c <= 57 THEN c - 48 + 52
    ELSE IF c = 43 THEN 62
    ELSE IF c = 47 THEN 63
    ELSE -1

RECURSIVE EncodeToString(_)
EncodeToString(src) ==
    IF Len(src) = 0 THEN <<>>
    ELSE IF Len(src) = 1 THEN
        <<B64Char(src[1] \div 4), B64Char((src[1] % 4) * 16), 61, 61>>
    ELSE IF Len(src) = 2 THEN
        <<B64Char(src[1] \div 4),
          B64Char((src[1] % 4) * 16 + src[2] \div 16),
          B64Char((src[2] % 16) * 4), 61>>
    ELSE
        <<B64Char(src[1] \div 4),
          B64Char((src[1] % 4) * 16 + src[2] \div 16),
          B64Char((src[2] % 16) * 4 + src[3] \div 64),
          B64Char(src[3] % 64)>> \o EncodeToString(SubSeq(src, 4, Len(src)))

\* The decoder skips carriage returns and newlines.
NotCRLF(c) == c # 13 /\ c # 10

StripCRLF(s) == SelectSeq(s, NotCRLF)

\* One quantum of four characters; last is TRUE for the final quantum, the
\* only place padding may stand.
DecodeQuantum(q, last) ==
    LET v1 == B64Val(q[1])
        v2 == B64Val(q[2])
        v3 == B64Val(q[3])
        v4 == B64Val(q[4])
    IN  IF v1 < 0 \/ v2 < 0 THEN [ok |-> FALSE, bytes |-> <<>>]
        ELSE IF q[3] = 61 THEN
            IF last /\ q[4] = 61
            THEN [ok |-> TRUE, bytes |-> <<v1 * 4 + v2 \div 16>>]
            ELSE [ok |-> FALSE, bytes |-> <<>>]
        ELSE IF v3 < 0 THEN [ok |-> FALSE, bytes |-> <<>>]
        ELSE IF q[4] = 61 THEN
            IF last
            THEN [ok |-> TRUE,
                  bytes |-> <<v1 * 4 + v2 \div 16, (v2 % 16) * 16 + v3 \div 4>>]
            ELSE [ok |-> FALSE, bytes |-> <<>>]
        ELSE IF v4 < 0 THEN [ok |-> FALSE, bytes |-> <<>>]
        ELSE [ok |-> TRUE,
              bytes |-> <<v1 * 4 + v2 \div 16,
                          (v2 % 16) * 16 + v3 \div 4,
                          (v3 % 4) * 64 + v4>>]

RECURSIVE DecodeQuanta(_)
DecodeQuanta(s) ==
    IF Len(s) = 0 THEN [ok |-> TRUE, bytes |-> <<>>]
    ELSE IF Len(s) < 4 THEN [ok |-> FALSE, bytes |-> <<>>]
    ELSE LET q    == DecodeQuantum(SubSeq(s, 1, 4), Len(s) = 4)
             rest == DecodeQuanta(SubSeq(s, 5, Len(s)))
         IN  IF q.ok /\ rest.ok
             THEN [ok |-> TRUE, bytes |-> q.bytes \o rest.bytes]
             ELSE [ok |-> FALSE, bytes |-> <<>>]

\* base64.StdEncoding.DecodeString
DecodeString(s) == DecodeQuanta(StripCRLF(s))

(***************************************************************************)
(* Checkpoint (api/checkpoint.go).                                         *)
(***************************************************************************)
\* The zero value of the Checkpoint struct.
ZeroCheckpoint == [Origin |-> <<>>, Size |-> 0, Hash |-> <<>>]

\* Mutant: the origin is stored in the receiver as soon as it is read.
UnmarshalEager(recv, data) ==
    LET l == SplitN(data, 4)
    IN  IF Len(l) < 4 THEN [err |-> "too few newlines", c |-> recv]
        ELSE LET origin == l[1]
                 size   == ParseUint(l[2])
                 h      == DecodeString(l[3])
                 part   == [recv EXCEPT !.Origin = origin]
             IN  IF Len(origin) = 0 THEN [err |-> "empty origin", c |-> part]
                 ELSE IF ~size.ok THEN [err |-> "size invalid", c |-> part]
                 ELSE IF ~h.ok THEN [err |-> "invalid hash", c |-> part]
                 ELSE IF Len(l[4]) > 0 THEN [err |-> "trailing data", c |-> part]
                 ELSE [err |-> "",
                       c |-> [Origin |-> origin, Size |-> size.val, Hash |-> h.bytes]]

\* Checkpoint.Unmarshal: err is "" on success; c is the receiver afterwards,
\* given the receiver recv before the call.
Unmarshal(recv, data) ==
    LET l == SplitN(data, 4)
    IN  IF Len(l) < 4 THEN [err |-> "too few newlines", c |-> recv]
        ELSE LET origin == l[1]
                 size   == ParseUint(l[2])
                 h      == DecodeString(l[3])
             IN  IF Len(origin) = 0 THEN [err |-> "empty origin", c |-> recv]
                 ELSE IF ~size.ok THEN [err |-> "size invalid", c |-> recv]
                 ELSE IF ~h.ok THEN [err |-> "invalid hash", c |-> recv]
                 ELSE IF Len(l[4]) > 0 THEN [err |-> "trailing data", c |-> recv]
                 ELSE [err |-> "",
                       c |-> [Origin |-> origin, Size |-> size.val, Hash |-> h.bytes]]

(***************************************************************************)
(* RFC 6962 hasher (hasher.DefaultHasher).  Sum256 stands for SHA-256: a   *)
(* checksum of the input spread over HashSize bytes.                       *)
(***************************************************************************)
HashSize == 32

\* The byte at position k plus one, 0 past the end of data.
ByteAt(data, k) == IF k <= Len(data) THEN data[k] + 1 ELSE 0

\* The polynomial checksum of data in base 263 modulo 32749, eight bytes at a
\* time (the factors are the powers 263^7 .. 263^0 and 263^8 modulo 32749).
RECURSIVE PolyHash(_, _, _)
PolyHash(data, k, acc) ==
    IF k > Len(data) THEN acc
    ELSE PolyHash(data, k + 8,
            (acc * 25318
             + ByteAt(data, k) * 7443 + ByteAt(data, k + 1) * 19080
             + ByteAt(data, k + 2) * 23607 + ByteAt(data, k + 3) * 16402
             + ByteAt(data, k + 4) * 15752 + ByteAt(data, k + 5) * 3671
             + ByteAt(data, k + 6) * 263 + ByteAt(data, k + 7)) % 32749)

Sum256(data) ==
    LET c == (PolyHash(data, 1, 7) * 31 + Len(data)) % 32749
    IN  [j \in 1..HashSize |->
            IF j = 1 THEN c % 256
            ELSE IF j = 2 THEN c \div 256
            ELSE (c + 37 * j) % 256]

\* SHA-256(0x00 || leaf)
HashLeaf(leaf) == Sum256(<<0>> \o leaf)

\* SHA-256(0x01 || left || right)
HashChildren(l, r) == Sum256(<<1>> \o l \o r)

(***************************************************************************)
(* compact.Range anchored at 0: the roots of the perfect subtrees covering *)
(* [0, end), left to right.                                                *)
(***************************************************************************)
NewEmptyRange == [end |-> 0, hashes |-> <<>>]

\* Mutant: the new subtree goes to the left of the one it is merged with.
RECURSIVE MergeUpSwapped(_, _, _)
MergeUpSwapped(hashes, seed, index) ==
    IF index % 2 = 1
    THEN MergeUpSwapped(SubSeq(hashes, 1, Len(hashes) - 1),
                        HashChildren(seed, hashes[Len(hashes)]),
                        index \div 2)
    ELSE hashes \o <<seed>>

\* The merges of one append: one for every trailing one bit of the old size.
RECURSIVE MergeUp(_, _, _)
MergeUp(hashes, seed, index) ==
    IF index % 2 = 1
    THEN MergeUp(SubSeq(hashes, 1, Len(hashes) - 1),
                 HashChildren(hashes[Len(hashes)], seed),
                 index \div 2)
    ELSE hashes \o <<seed>>

\* tree.Append(leafHash, nil)
RangeAppend(tree, hash) ==
    [end |-> tree.end + 1, hashes |-> MergeUp(tree.hashes, hash, tree.end)]

\* Folds the subtree roots right to left.
RECURSIVE FoldRoot(_, _)
FoldRoot(hashes, hash) ==
    IF Len(hashes) = 0 THEN hash
    ELSE FoldRoot(SubSeq(hashes, 1, Len(hashes) - 1),
                  HashChildren(hashes[Len(hashes)], hash))

\* tree.GetRootHash(nil): nil (the empty byte string) for the empty range.
GetRootHash(tree) ==
    IF Len(tree.hashes) = 0 THEN <<>>
    ELSE FoldRoot(SubSeq(tree.hashes, 1, Len(tree.hashes) - 1),
                  tree.hashes[Len(tree.hashes)])

(***************************************************************************)
(* The Merkle Tree Hash of RFC 6962, section 2.1, over a list of leaf      *)
(* hashes: the reference the running roots are compared with.              *)
(***************************************************************************)
\* The largest power of two strictly below n (n > 1).
RECURSIVE SplitPoint(_, _)
SplitPoint(n, k) == IF 2 * k < n THEN SplitPoint(n, 2 * k) ELSE k

RECURSIVE MerkleTreeHash(_)
MerkleTreeHash(leafHashes) ==
    LET n == Len(leafHashes)
    IN  IF n = 0 THEN <<>>
        ELSE IF n = 1 THEN leafHashes[1]
        ELSE LET k == SplitPoint(n, 1)
             IN  HashChildren(MerkleTreeHash(SubSeq(leafHashes, 1, k)),
                              MerkleTreeHash(SubSeq(leafHashes, k + 1, n)))

\* The root of the first k leaf hashes.
PrefixRoot(leafHashes, k) == MerkleTreeHash(SubSeq(leafHashes, 1, k))

(***************************************************************************)
(* Signed notes (golang.org/x/mod/sumdb/note).  A message is kept in       *)
(* parsed form: its text, whether the blank line and signature block are   *)
(* well framed, and its signature lines in order, each with the key it     *)
(* names and whether the signature bytes verify under that key over the    *)
(* text.  NoteBytes gives the bytes on the wire, which is what gets hashed.*)
(***************************************************************************)
LogKey == "test-log"
FwKey == "test-firmware"

KeyNameBytes(k) == IF k = LogKey THEN <<108>> ELSE IF k = FwKey THEN <<102>> ELSE <<120>>

RECURSIVE SigLines(_)
SigLines(sigs) ==
    IF Len(sigs) = 0 THEN <<>>
    ELSE <<226, 128, 148, 32>> \o KeyNameBytes(sigs[1].key) \o <<32>>
         \o <<IF sigs[1].ok THEN 49 ELSE 48>> \o NL \o SigLines(Tail(sigs))

NoteBytes(msg) ==
    msg.text \o (IF msg.framed THEN NL ELSE <<>>) \o SigLines(msg.sigs)

\* note.Sign(&note.Note{Text: text}, signer)
Sign(text, key) ==
    [text |-> text, framed |-> TRUE, sigs |-> <<[key |-> key, ok |-> TRUE]>>]

\* Mutant: the first signature line decides, whichever key it names.
VerifySigsAnySigner(sigs, known, seen, verified) ==
    IF Len(sigs) = 0 THEN "unverified note"
    ELSE IF sigs[1].ok THEN "" ELSE "invalid signature"

\* The verdict on the signature lines, read in order: a line of an unknown key
\* is set aside, a repeated key is skipped, a known key whose signature fails
\* ends the call.
RECURSIVE VerifySigs(_, _, _, _)
VerifySigs(sigs, known, seen, verified) ==
    IF Len(sigs) = 0
    THEN IF verified = 0 THEN "unverified note" ELSE ""
    ELSE LET s == sigs[1]
         IN  IF s.key \notin known THEN VerifySigs(Tail(sigs), known, seen, verified)
             ELSE IF s.key \in seen THEN VerifySigs(Tail(sigs), known, seen, verified)
             ELSE IF ~s.ok THEN "invalid signature"
             ELSE VerifySigs(Tail(sigs), known, seen \cup {s.key}, verified + 1)

\* note.Open(msg, known): err is "" on success and text the note's text.
Open(msg, known) ==
    IF ~msg.framed THEN [err |-> "malformed note", text |-> <<>>]
    ELSE LET e == VerifySigs(msg.sigs, known, {}, 0)
         IN  [err |-> e, text |-> IF e = "" THEN msg.text ELSE <<>>]

(***************************************************************************)
(* FirmwareRelease manifests (api/log_entries.go).  encoding/json is       *)
(* library code: the manifests the model uses are fixed texts, and         *)
(* JSONUnmarshal decodes exactly those.                                    *)
(***************************************************************************)
FirmwareArtifactName == "armory-drive.imx"

ImageDigest == <<70, 72>>
ThingyDigest == <<77, 97>>
WrongDigest == <<72, 98>>

\* {"artifact_sha256": {"armory-drive.imx": ..., "Thingy": ...}, ...}
ManifestText == <<123, 65, 125, 10>>
\* {"artifact_sha256": {"Thingy": ...}, ...}: a manifest without the image.
ManifestNoImageText == <<123, 84, 125, 10>>
\* A text that is no JSON object.
NotJSONText == <<33, 10>>

ZeroFirmwareRelease == [ArtifactSHA256 |-> <<>>]

\* json.Unmarshal([]byte(text), fr)
JSONUnmarshal(text) ==
    IF text = ManifestText
    THEN [err |-> "",
          fr |-> [ArtifactSHA256 |->
                    (FirmwareArtifactName :> ImageDigest) @@ ("Thingy" :> ThingyDigest)]]
    ELSE IF text = ManifestNoImageText
    THEN [err |-> "", fr |-> [ArtifactSHA256 |-> ("Thingy" :> ThingyDigest)]]
    ELSE [err |-> "invalid JSON", fr |-> ZeroFirmwareRelease]

(***************************************************************************)
(* verify.Bundle (the Bundle that takes artifactHashes): the conditions it *)
(* tests, then its steps.                                                  *)
(***************************************************************************)
\* Mutant: the error of note.Open is dropped and the text parsed regardless.
ParseNewCheckpointUnverified(msg, verifier, recv) ==
    LET u == Unmarshal(recv, msg.text)
    IN  IF u.err # ""
        THEN [err |-> "failed to unmarshal NewCheckpoint", c |-> u.c]
        ELSE [err |-> "", c |-> u.c]

\* The first block: open the note under the log's verifier, then unmarshal
\* its text into the checkpoint recv.  err is "" on success.
ParseNewCheckpoint(msg, verifier, recv) ==
    LET n == Open(msg, {verifier})
    IN  IF n.err # ""
        THEN [err |-> "failed to verify signature on NewCheckpoint", c |-> recv]
        ELSE LET u == Unmarshal(recv, n.text)
             IN  IF u.err # ""
                 THEN [err |-> "failed to unmarshal NewCheckpoint", c |-> u.c]
                 ELSE [err |-> "", c |-> u.c]

\* Mutant: only too few leaf hashes are refused.
LeafCountAtLeast(leafHashes, cp) == Len(leafHashes) >= cp.Size

\* uint64(len(pb.LeafHashes)) against the size of the new checkpoint.
LeafCountOK(leafHashes, cp) == Len(leafHashes) = cp.Size

\* Mutant: the flag follows the last leaf instead of latching.
ManifestFoundLast(found, leafHash, mHash) == BytesEqual(leafHash, mHash)

\* Mutant: a second match clears the flag.
ManifestFoundToggled(found, leafHash, mHash) ==
    IF BytesEqual(leafHash, mHash) THEN ~found ELSE found

\* manifestFound after a leaf: latched at the first match.
ManifestFoundAfter(found, leafHash, mHash) ==
    IF ~found THEN BytesEqual(leafHash, mHash) ELSE found

\* Mutant: the old checkpoint's hash is looked for at every prefix.
OldCPFoundAnywhere(found, end, r, cp) ==
    IF ~found THEN BytesEqual(r, cp.Hash) ELSE found

\* oldCPFound after a leaf: decided where the tree has the old checkpoint's size.
OldCPFoundAfter(found, end, r, cp) ==
    IF end = cp.Size THEN BytesEqual(r, cp.Hash) ELSE found

\* Mutant: the new checkpoint's hash is looked for at every prefix.
NewCPFoundAnywhere(found, end, r, cp) ==
    IF ~found THEN BytesEqual(r, cp.Hash) ELSE found

\* newCPFound after a leaf: decided where the tree has the new checkpoint's size.
NewCPFoundAfter(found, end, r, cp) ==
    IF end = cp.Size THEN BytesEqual(r, cp.Hash) ELSE found

\* Mutant: the inclusion of the manifest is not required.
FlagsErrorNoInclusion(oldFound, newFound, mFound, old) ==
    IF ~oldFound /\ old.Size > 0 THEN "unable to prove consistency - old checkpoint"
    ELSE IF ~newFound THEN "unable to prove consistency - new checkpoint"
    ELSE ""

\* Mutant: the new checkpoint's root is not required.
FlagsErrorNoNewCP(oldFound, newFound, mFound, old) ==
    IF ~oldFound /\ old.Size > 0 THEN "unable to prove consistency - old checkpoint"
    ELSE IF ~mFound THEN "unable to prove inclusion"
    ELSE ""

\* Mutant: the old checkpoint is required whatever its size.
FlagsErrorOldAlways(oldFound, newFound, mFound, old) ==
    IF ~oldFound THEN "unable to prove consistency - old checkpoint"
    ELSE IF ~newFound THEN "unable to prove consistency - new checkpoint"
    ELSE IF ~mFound THEN "unable to prove inclusion"
    ELSE ""

\* The three checks after the loop, in the order of the code.
FlagsError(oldFound, newFound, mFound, old) ==
    IF ~oldFound /\ old.Size > 0 THEN "unable to prove consistency - old checkpoint"
    ELSE IF ~newFound THEN "unable to prove consistency - new checkpoint"
    ELSE IF ~mFound THEN "unable to prove inclusion"
    ELSE ""

\* Mutant: the error of note.Open is dropped and the text parsed regardless.
ParseReleaseUnverified(msg, verifier) ==
    LET j == JSONUnmarshal(msg.text)
    IN  IF j.err # ""
        THEN [err |-> "failed to unmarshal FirmwareRelease", fr |-> j.fr]
        ELSE [err |-> "", fr |-> j.fr]

\* The second block: open the release under the release verifier, then parse
\* its JSON.
ParseRelease(msg, verifier) ==
    LET n == Open(msg, {verifier})
    IN  IF n.err # ""
        THEN [err |-> "invalid signature on FirmwareRelease", fr |-> ZeroFirmwareRelease]
        ELSE LET j == JSONUnmarshal(n.text)
             IN  IF j.err # ""
                 THEN [err |-> "failed to unmarshal FirmwareRelease", fr |-> j.fr]
                 ELSE [err |-> "", fr |-> j.fr]

\* Mutant: an artifact the manifest does not name is passed over.
ArtifactErrorSkipMissing(release, expected, artifact) ==
    IF artifact \notin DOMAIN release.ArtifactSHA256 THEN ""
    ELSE IF ~BytesEqual(expected[artifact], release.ArtifactSHA256[artifact])
    THEN "artifact hash differs"
    ELSE ""

\* The check of one entry of artifactHashes against the manifest.
ArtifactError(release, expected, artifact) ==
    IF artifact \notin DOMAIN release.ArtifactSHA256
    THEN "FirmwareRelease does not commit to artifact"
    ELSE IF ~BytesEqual(expected[artifact], release.ArtifactSHA256[artifact])
    THEN "artifact hash differs"
    ELSE ""

VARIABLES
    pb,              \* argument: the ProofBundle
    oldCP,           \* argument: the device's checkpoint
    logSigV,         \* argument: the log's verifier
    frSigV,          \* argument: the release verifier
    artifactHashes,  \* argument: expected artifact name -> digest
    firmwareHash,    \* argument of verify.Bundle of api/verify: the image's digest
    origin,          \* the origin the caller expects of the log
    pc,              \* position in Bundle
    newCP,           \* the new checkpoint, once parsed
    manifestHash,
    tree,            \* the compact range
    manifestFound,
    oldCPFound,
    newCPFound,
    fr,              \* the FirmwareRelease, once parsed
    todo,            \* artifacts the range loop has not visited yet
    err              \* the error returned; "" is nil

args == <<pb, oldCP, logSigV, frSigV, artifactHashes, firmwareHash, origin>>
locals == <<newCP, manifestHash, tree, manifestFound, oldCPFound, newCPFound, fr, todo>>
vars == <<args, pc, locals, err>>

(***************************************************************************)
(* The monitor (cmd/monitor/main.go): its variables.  While the model      *)
(* runs Bundle the monitor is idle, and the other way round.               *)
(***************************************************************************)
VARIABLES
    mpc,        \* position in main and Monitor.From
    file,       \* content of the state file
    st,         \* main's LogStateTracker
    mst,        \* monitor.st, the Monitor's LogStateTracker
    isNew,      \* stateTrackerFromFlags' second result
    lastHead,   \* main's lastHead
    start,      \* From's argument
    fromCP,     \* From's fromCP
    idx,        \* From's loop variable i
    polls,      \* iterations of main's loop so far
    exitErr,    \* what glog.Exitf reported; "" while running
    updErr,     \* the error of the last st.Update; "" is nil
    trace,      \* history: the leaves the latest From call has worked on
    fromCalls,  \* history: number of calls of From so far
    fileAtCall, \* history: the state file when From was last called
    file0,      \* history: the state file at start-up
    handledTo,  \* history: leaves [0, handledTo) went through the handler without error
    ctxDone     \* ctx.Done(): where the monitor stood when ctx was cancelled

mvars == <<mpc, file, st, mst, isNew, lastHead, start, fromCP, idx, polls,
           exitErr, updErr, trace, fromCalls, fileAtCall, file0, handledTo, ctxDone>>

\* ctx has not been cancelled.
NotDone == [at |-> "", call |-> 0]

\* A checkpoint of the log: its size and the leaves its root commits to,
\* "main" for the leaves the log serves and "fork" for others.
NoCheckpoint == [Size |-> 0, View |-> "none"]

\* The signed note that carries a checkpoint.
RawOf(cp) == <<"note", cp>>

\* client.LogStateTracker{}: no checkpoint yet.
ZeroTracker == [LatestConsistent |-> NoCheckpoint, LatestConsistentRaw |-> <<>>]

\* The state file does not exist.
NoFile == <<"absent">>

MonitorIdle ==
    /\ mpc = "idle"
    /\ file = NoFile
    /\ st = ZeroTracker
    /\ mst = ZeroTracker
    /\ isNew = FALSE
    /\ lastHead = 0
    /\ start = 0
    /\ fromCP = NoCheckpoint
    /\ idx = 0
    /\ polls = 0
    /\ exitErr = ""
    /\ updErr = ""
    /\ trace = <<>>
    /\ fromCalls = 0
    /\ fileAtCall = NoFile
    /\ file0 = NoFile
    /\ handledTo = 0
    /\ ctxDone = NotDone

(***************************************************************************)
(* Checkpoint.Unmarshal called on its own, as TestUnmarshalCheckpoint      *)
(* calls it: its variables.                                                *)
(***************************************************************************)
VARIABLES
    upc,     \* "call" before the call of Unmarshal, "done" after it
    input,   \* the argument data
    before,  \* the receiver before the call
    got,     \* the receiver (the test's got)
    gotErr   \* the error returned (the test's gotErr); "" is nil

uvars == <<upc, input, before, got, gotErr>>

UnmarshalIdle ==
    /\ upc = "idle"
    /\ input = <<>>
    /\ before = ZeroCheckpoint
    /\ got = ZeroCheckpoint
    /\ gotErr = ""

(***************************************************************************)
(* createBundle of create_proofbundle, and the log it waits on: their      *)
(* variables.                                                              *)
(***************************************************************************)
VARIABLES
    cbpc,        \* position in createBundle
    ctxExpired,  \* the deadline of ctx has passed: ctx.Done() is closed
    scheme,      \* root.Scheme of the log's URL
    seqNext,     \* the log: number of leaves sequenced so far
    logCP,       \* the log: size of the checkpoint it serves
    relIdx,      \* the log: index the release was sequenced at, -1 for none
    bst,         \* st.LatestConsistent.Size
    bcp,         \* cp.Size: the checkpoint the loop body works under
    bidx,        \* idx
    bundle,      \* the ProofBundle returned: the size of the checkpoint whose raw
                 \* bytes it carries and the number of leaf hashes fetched for it
    cbErr        \* the error returned; "" is nil

cvars == <<cbpc, ctxExpired, scheme, seqNext, logCP, relIdx, bst, bcp, bidx, bundle, cbErr>>

\* return nil, err
NoBundle == [NewCheckpoint |-> -1, LeafHashes |-> -1]

CreateBundleIdle ==
    /\ cbpc = "idle"
    /\ ctxExpired = FALSE
    /\ scheme = "https"
    /\ seqNext = 0
    /\ logCP = 0
    /\ relIdx = -1
    /\ bst = 0
    /\ bcp = 0
    /\ bidx = 0
    /\ bundle = NoBundle
    /\ cbErr = ""

(***************************************************************************)
(* The arguments the model calls Bundle with.                              *)
(***************************************************************************)
\* "ArmoryDrive Log v0"
TestLogOrigin ==
    <<65,114,109,111,114,121,68,114,105,118,101,32,76,111,103,32,118,48>>
\* "Other Log"
OtherOrigin == <<79,116,104,101,114,32,76,111,103>>
\* A hash no list of the model reconstructs.
GarbageHash == <<78,111>>
\* A leaf hash that is not the manifest's.
OtherLeafHash == <<77,97,110,121>>

\* makeCheckpoint of the tests: the signed text of a checkpoint.
MakeCheckpoint(o, size, hash, key) ==
    Sign(o \o NL \o FormatUint(size) \o NL \o EncodeToString(hash) \o NL, key)

\* makeFirmwareRelease of the tests: the signed text of a manifest.
MakeFirmwareRelease(text, key) == Sign(text, key)

\* The same note with the signature bytes damaged.
BadSig(msg) == [msg EXCEPT !.sigs = <<[key |-> msg.sigs[1].key, ok |-> FALSE]>>]

Releases ==
    { MakeFirmwareRelease(ManifestText, FwKey),
      MakeFirmwareRelease(ManifestText, LogKey),
      MakeFirmwareRelease(ManifestNoImageText, FwKey),
      MakeFirmwareRelease(NotJSONText, FwKey) }

\* The same manifest as the release key signs it.
ReleaseKeySigned(release) == MakeFirmwareRelease(release.text, FwKey)

\* Lists of up to MaxLeaves leaf hashes: the manifest's leaf hash may be
\* absent, occur once, or occur several times.
PlainLeafLists(release) ==
    LET m == HashLeaf(NoteBytes(release))
    IN  UNION { [1..n -> {OtherLeafHash, m}] : n \in 0..MaxLeaves }

\* The lists of a log that holds the manifest as the release key signed it,
\* once, while the bundle carries it under another signature; the leaf hash
\* of what the bundle carries is in the list at most once.
CrossSignedLeafLists(release) ==
    LET m == HashLeaf(NoteBytes(release))
        g == HashLeaf(NoteBytes(ReleaseKeySigned(release)))
        all == UNION { [1..n -> {OtherLeafHash, m, g}] : n \in 1..MaxLeaves }
    IN  IF m = g THEN {}
        ELSE { l \in all : /\ Cardinality({ k \in 1..Len(l) : l[k] = g }) = 1
                           /\ Cardinality({ k \in 1..Len(l) : l[k] = m }) <= 1 }

LeafLists(release) == PlainLeafLists(release) \cup CrossSignedLeafLists(release)

\* The roots of the prefixes of the list, and a hash that is none of them.
RootChoices(leaves) ==
    { PrefixRoot(leaves, k) : k \in 1..Len(leaves) } \cup {GarbageHash}

\* Checkpoints of the right size with the root of all the leaves, of all but
\* the last, or with a hash that is no root; of a size one off with
\* the root of that many leaves; of another origin; signed by the wrong key or
\* badly; and one whose text lacks the root line.
NewCheckpoints(leaves) ==
    LET n == Len(leaves)
    IN  { MakeCheckpoint(TestLogOrigin, n, h, LogKey) :
            h \in { PrefixRoot(leaves, k) : k \in { j \in {n - 1, n} : j >= 1 } }
                  \cup {GarbageHash} }
        \cup
        { MakeCheckpoint(TestLogOrigin, s, PrefixRoot(leaves, IF s < n THEN s ELSE n), LogKey) :
            s \in { k \in {n - 1, n + 1} : k >= 0 } }
        \cup
        { MakeCheckpoint(OtherOrigin, n, MerkleTreeHash(leaves), LogKey),
          MakeCheckpoint(TestLogOrigin, n, MerkleTreeHash(leaves), FwKey),
          BadSig(MakeCheckpoint(TestLogOrigin, n, MerkleTreeHash(leaves), LogKey)),
          Sign(TestLogOrigin \o NL \o FormatUint(n) \o NL, LogKey) }

OldCheckpoints(leaves) ==
    { [Origin |-> o, Size |-> s, Hash |-> h] :
        o \in {<<>>}, s \in 0..(Len(leaves) + 1), h \in RootChoices(leaves) }
    \cup
    { [Origin |-> TestLogOrigin, Size |-> 0, Hash |-> h] : h \in {<<>>, GarbageHash} }

\* The old checkpoints a list is tried with: all of them for a list with the
\* manifest's leaf hash at most once, and for a list that repeats it or holds
\* the manifest under another signature, and for the manifest without the
\* image, the empty one, the one of its first leaf, and one of that size with no root.
OldCheckpointsFor(leaves, release) ==
    LET m == HashLeaf(NoteBytes(release))
    IN  IF /\ Cardinality({ k \in 1..Len(leaves) : leaves[k] = m }) <= 1
           /\ leaves \in PlainLeafLists(release)
           /\ release.text # ManifestNoImageText
        THEN OldCheckpoints(leaves)
        ELSE { [Origin |-> <<>>, Size |-> 0, Hash |-> <<>>],
               [Origin |-> <<>>, Size |-> 1, Hash |-> GarbageHash] }
             \cup { [Origin |-> <<>>, Size |-> 1, Hash |-> PrefixRoot(leaves, k)] :
                      k \in { j \in {1} : j <= Len(leaves) } }

ArtifactMaps ==
    { <<>>,
      (FirmwareArtifactName :> ImageDigest),
      (FirmwareArtifactName :> WrongDigest) @@ ("Thingy" :> ThingyDigest),
      ("Sekret" :> ImageDigest) @@ (FirmwareArtifactName :> ImageDigest) }

Init ==
    /\ \E release \in Releases :
         \E leaves \in LeafLists(release) :
           /\ \E cp \in NewCheckpoints(leaves) :
                pb = [NewCheckpoint |-> cp, FirmwareRelease |-> release,
                      LeafHashes |-> leaves]
           /\ oldCP \in OldCheckpointsFor(leaves, release)
    /\ logSigV = LogKey
    /\ frSigV = FwKey
    /\ artifactHashes \in ArtifactMaps
    /\ firmwareHash = <<>>
    /\ origin = TestLogOrigin
    /\ pc = "start"
    /\ newCP = ZeroCheckpoint
    /\ manifestHash = <<>>
    /\ tree = NewEmptyRange
    /\ manifestFound = FALSE
    /\ oldCPFound = FALSE
    /\ newCPFound = FALSE
    /\ fr = ZeroFirmwareRelease
    /\ todo = {}
    /\ err = ""
    /\ MonitorIdle
    /\ UnmarshalIdle
    /\ CreateBundleIdle

\* return err
Fail(e) ==
    /\ pc' = "done"
    /\ err' = e

\* Check the signature on the new checkpoint and parse it.
OpenCheckpoint ==
    /\ pc = "start"
    /\ LET p == ParseNewCheckpoint(pb.NewCheckpoint, logSigV, newCP)
       IN  /\ newCP' = p.c
           /\ IF p.err # "" THEN Fail(p.err) ELSE pc' = "count" /\ UNCHANGED err
    /\ UNCHANGED <<args, manifestHash, tree, manifestFound, oldCPFound, newCPFound, fr, todo>>
    /\ UNCHANGED <<mvars, uvars, cvars>>

\* The leaf count against the checkpoint's size, then the set-up of the loop.
CheckLeafCount ==
    /\ pc = "count"
    /\ IF LeafCountOK(pb.LeafHashes, newCP)
       THEN /\ pc' = "loop"
            /\ manifestHash' = HashLeaf(NoteBytes(pb.FirmwareRelease))
            /\ tree' = NewEmptyRange
            /\ manifestFound' = FALSE
            /\ oldCPFound' = FALSE
            /\ newCPFound' = FALSE
            /\ UNCHANGED err
       ELSE /\ Fail("invalid ProofBundle - leaf count")
            /\ UNCHANGED <<manifestHash, tree, manifestFound, oldCPFound, newCPFound>>
    /\ UNCHANGED <<args, newCP, fr, todo>>
    /\ UNCHANGED <<mvars, uvars, cvars>>

\* One iteration of the loop over pb.LeafHashes.
LoopStep ==
    /\ pc = "loop"
    /\ tree.end < Len(pb.LeafHashes)
    /\ LET leafHash == pb.LeafHashes[tree.end + 1]
           t == RangeAppend(tree, leafHash)
           r == GetRootHash(t)
       IN  /\ tree' = t
           /\ manifestFound' = ManifestFoundAfter(manifestFound, leafHash, manifestHash)
           /\ oldCPFound' = OldCPFoundAfter(oldCPFound, t.end, r, oldCP)
           /\ newCPFound' = NewCPFoundAfter(newCPFound, t.end, r, newCP)
    /\ UNCHANGED <<args, pc, newCP, manifestHash, fr, todo, err>>
    /\ UNCHANGED <<mvars, uvars, cvars>>

\* After the loop: the old checkpoint, the new checkpoint, the manifest.
CheckFlags ==
    /\ pc = "loop"
    /\ tree.end = Len(pb.LeafHashes)
    /\ LET e == FlagsError(oldCPFound, newCPFound, manifestFound, oldCP)
       IN  IF e # "" THEN Fail(e) ELSE pc' = "release" /\ UNCHANGED err
    /\ UNCHANGED <<args, locals>>
    /\ UNCHANGED <<mvars, uvars, cvars>>

\* Check the signature on the FirmwareRelease and parse it.
OpenRelease ==
    /\ pc = "release"
    /\ LET p == ParseRelease(pb.FirmwareRelease, frSigV)
       IN  /\ fr' = p.fr
           /\ IF p.err # ""
              THEN Fail(p.err) /\ UNCHANGED todo
              ELSE pc' = "artifacts" /\ todo' = DOMAIN artifactHashes /\ UNCHANGED err
    /\ UNCHANGED <<args, newCP, manifestHash, tree, manifestFound, oldCPFound, newCPFound>>
    /\ UNCHANGED <<mvars, uvars, cvars>>

\* Mutant: the range stops at the first entry that matches.
ArtifactStepFirstMatch ==
    /\ pc = "artifacts"
    /\ \E artifact \in todo :
         LET e == ArtifactError(fr, artifactHashes, artifact)
         IN  IF e # ""
             THEN Fail(e) /\ UNCHANGED todo
             ELSE pc' = "done" /\ err' = "" /\ todo' = todo \ {artifact}
    /\ UNCHANGED <<args, newCP, manifestHash, tree, manifestFound, oldCPFound, newCPFound, fr>>
    /\ UNCHANGED <<mvars, uvars, cvars>>

\* One iteration of the range over artifactHashes: Go visits the entries of a
\* map in an order of its choosing.
ArtifactStep ==
    /\ pc = "artifacts"
    /\ \E artifact \in todo :
         LET e == ArtifactError(fr, artifactHashes, artifact)
         IN  IF e # ""
             THEN Fail(e) /\ UNCHANGED todo
             ELSE todo' = todo \ {artifact} /\ UNCHANGED <<pc, err>>
    /\ UNCHANGED <<args, newCP, manifestHash, tree, manifestFound, oldCPFound, newCPFound, fr>>
    /\ UNCHANGED <<mvars, uvars, cvars>>

\* return nil
ReturnNil ==
    /\ pc = "artifacts"
    /\ todo = {}
    /\ pc' = "done"
    /\ err' = ""
    /\ UNCHANGED <<args, locals>>
    /\ UNCHANGED <<mvars, uvars, cvars>>

Next ==
    \/ OpenCheckpoint
    \/ CheckLeafCount
    \/ LoopStep
    \/ CheckFlags
    \/ OpenRelease
    \/ ArtifactStep
    \/ ReturnNil

Spec == Init /\ [][Next]_vars

(***************************************************************************)
(* Properties of Bundle.  They are stated over the arguments of the call,  *)
(* not over what Bundle computed on the way.                               *)
(***************************************************************************)
Done == pc = "done"
Accepted == pc = "done" /\ err = ""
Rejected == pc = "done" /\ err # ""

\* The note is well framed and carries a signature of the key that verifies.
ValidlySignedBy(msg, key) ==
    /\ msg.framed
    /\ \E k \in 1..Len(msg.sigs) : msg.sigs[k].key = key /\ msg.sigs[k].ok

\* What the text of the bundle's new checkpoint says.
SignedCheckpoint == Unmarshal(ZeroCheckpoint, pb.NewCheckpoint.text)

\* The new checkpoint is a note of the log's key whose text is a checkpoint.
CheckpointGood ==
    ValidlySignedBy(pb.NewCheckpoint, logSigV) /\ SignedCheckpoint.err = ""

\* The release is a note of the release key whose text is a manifest.
ReleaseGood ==
    /\ ValidlySignedBy(pb.FirmwareRelease, frSigV)
    /\ JSONUnmarshal(pb.FirmwareRelease.text).err = ""

\* The leaf hash of the release is one of the bundle's leaf hashes.
ManifestIncluded ==
    \E k \in 1..Len(pb.LeafHashes) :
        pb.LeafHashes[k] = HashLeaf(NoteBytes(pb.FirmwareRelease))

\* The old checkpoint is empty, or is the root of that many first leaf hashes.
OldCPConsistent ==
    \/ oldCP.Size = 0
    \/ /\ oldCP.Size >= 1
       /\ oldCP.Size <= Len(pb.LeafHashes)
       /\ PrefixRoot(pb.LeafHashes, oldCP.Size) = oldCP.Hash

\* Every expected artifact is in the manifest with the same digest.
ArtifactsMatch ==
    LET m == JSONUnmarshal(pb.FirmwareRelease.text).fr.ArtifactSHA256
    IN  \A a \in DOMAIN artifactHashes : a \in DOMAIN m /\ artifactHashes[a] = m[a]

\* C1: with oldCP.Size > 0, Bundle accepts only if oldCP.Size is at most the
\* number of leaf hashes and the Merkle root of exactly the first oldCP.Size
\* leaf hashes is oldCP.Hash; a match at another prefix, or an old checkpoint
\* larger than the new one, is rejected.
C1_OldCheckpointAnchored ==
    (Accepted /\ oldCP.Size > 0) =>
        /\ oldCP.Size <= Len(pb.LeafHashes)
        /\ PrefixRoot(pb.LeafHashes, oldCP.Size) = oldCP.Hash

\* A bundle is accepted against an old checkpoint of two leaves or more.
C1_Witness ==
    Accepted /\ oldCP.Size >= 2 /\ oldCP.Size < Len(pb.LeafHashes)

\* C2: Bundle accepts only if HashLeaf(pb.FirmwareRelease) is one of
\* pb.LeafHashes.
C2_ManifestIncluded == Accepted => ManifestIncluded

\* A bundle is accepted whose manifest is not the last leaf.
C2_Witness ==
    /\ Accepted
    /\ Len(pb.LeafHashes) >= 2
    /\ pb.LeafHashes[Len(pb.LeafHashes)] # HashLeaf(NoteBytes(pb.FirmwareRelease))

\* C3: Bundle accepts only if the Merkle root over all newCP.Size leaf hashes
\* of the bundle is the root hash in the signed new checkpoint.
C3_NewCheckpointRoot ==
    Accepted =>
        /\ SignedCheckpoint.err = ""
        /\ SignedCheckpoint.c.Size = Len(pb.LeafHashes)
        /\ PrefixRoot(pb.LeafHashes, SignedCheckpoint.c.Size) = SignedCheckpoint.c.Hash

\* A bundle of three leaves or more is accepted.
C3_Witness == Accepted /\ Len(pb.LeafHashes) >= 3

\* C4: Bundle returns an error when pb.NewCheckpoint carries no valid
\* signature of the log verifier, or its text is no checkpoint.
C4_CheckpointSignature == Done => (~CheckpointGood => err # "")

\* A checkpoint signed with the firmware key only, everything else in order,
\* is rejected.
C4_Witness ==
    /\ Rejected
    /\ ValidlySignedBy(pb.NewCheckpoint, FwKey)
    /\ ~ValidlySignedBy(pb.NewCheckpoint, logSigV)
    /\ SignedCheckpoint.err = ""
    /\ SignedCheckpoint.c.Size = Len(pb.LeafHashes)
    /\ SignedCheckpoint.c.Hash = MerkleTreeHash(pb.LeafHashes)
    /\ ManifestIncluded /\ OldCPConsistent /\ ReleaseGood /\ ArtifactsMatch

\* C5: Bundle rejects every bundle whose new checkpoint's origin differs from
\* the origin the caller expects.
C5_OriginChecked ==
    (Done /\ CheckpointGood /\ SignedCheckpoint.c.Origin # origin) => err # ""

\* C6: Bundle rejects every bundle whose number of leaf hashes differs from the
\* size in its signed new checkpoint, before any Merkle computation.
C6_LeafCount ==
    (Done /\ CheckpointGood /\ Len(pb.LeafHashes) # SignedCheckpoint.c.Size) =>
        /\ err # ""
        /\ tree = NewEmptyRange
        /\ manifestHash = <<>>

\* A bundle with more leaf hashes than its checkpoint commits to, whose first
\* leaf hashes do have the checkpoint's root, is rejected.
C6_Witness ==
    /\ Rejected
    /\ CheckpointGood
    /\ Len(pb.LeafHashes) > SignedCheckpoint.c.Size
    /\ SignedCheckpoint.c.Size >= 1
    /\ PrefixRoot(pb.LeafHashes, SignedCheckpoint.c.Size) = SignedCheckpoint.c.Hash

\* C7: Bundle returns an error whenever pb.FirmwareRelease carries no valid
\* signature of the release verifier or its text is no FirmwareRelease.
C7_ReleaseSignature == Done => (~ReleaseGood => err # "")

\* A release signed with the log's key, in a bundle whose checkpoint and Merkle
\* checks pass, is rejected.
C7_Witness ==
    /\ Rejected
    /\ ValidlySignedBy(pb.FirmwareRelease, LogKey)
    /\ ~ValidlySignedBy(pb.FirmwareRelease, frSigV)
    /\ err = "invalid signature on FirmwareRelease"

\* The checkpoint, Merkle and release-signature checks have passed.
ChecksPassed ==
    /\ ReleaseGood
    /\ Len(pb.LeafHashes) >= 1
    /\ CheckpointGood
    /\ SignedCheckpoint.c.Size = Len(pb.LeafHashes)
    /\ ManifestIncluded
    /\ OldCPConsistent
    /\ SignedCheckpoint.c.Hash = MerkleTreeHash(pb.LeafHashes)

\* C8: once the checkpoint, Merkle and release-signature checks have passed,
\* Bundle accepts exactly when every expected artifact is in the manifest with
\* the same digest; artifacts of the manifest the caller does not list are
\* ignored.
C8_Artifacts == (Done /\ ChecksPassed) => (err = "" <=> ArtifactsMatch)

\* A bundle is accepted on one expected artifact while its manifest names two.
C8_Witness ==
    /\ Accepted
    /\ DOMAIN artifactHashes = {FirmwareArtifactName}
    /\ Cardinality(DOMAIN fr.ArtifactSHA256) = 2

\* C9: Bundle accepts whenever the checkpoint is signed by the log key and is a
\* checkpoint of size n = len(pb.LeafHashes) >= 1 whose root is the root of all
\* n leaf hashes, the old checkpoint is empty or the root of its first leaf
\* hashes, the manifest's leaf hash is in the list, the release is signed by
\* the release key and parses, and every expected artifact matches.
C9_Accepts == (Done /\ ArtifactsMatch /\ ChecksPassed) => err = ""

\* Such a bundle, with an old checkpoint of one leaf as in the test "works".
C9_Witness ==
    /\ Done /\ ChecksPassed /\ ArtifactsMatch
    /\ oldCP.Size = 1
    /\ Len(pb.LeafHashes) = MaxLeaves
    /\ DOMAIN artifactHashes # {}

\* C10: Bundle is deterministic and pure: no step changes an argument, and the
\* result is the same function of the arguments in whichever order the
\* expected-artifact map is visited.
C10_DeterministicAndPure ==
    [][ /\ args' = args
        /\ pc' = "done" => (err' = "" <=> (ChecksPassed /\ ArtifactsMatch)) ]_vars

\* A call that ends while two entries of the map, one matching and one not,
\* could be visited in either order.
C10_Witness ==
    /\ Done
    /\ ChecksPassed
    /\ Cardinality(DOMAIN artifactHashes) = 2
    /\ \E a, b \in DOMAIN artifactHashes :
         ArtifactError(fr, artifactHashes, a) = "" /\ ArtifactError(fr, artifactHashes, b) # ""

(***************************************************************************)
(* The monitor: cmd/monitor/main.go.                                       *)
(*                                                                         *)
(* The log is the monitor's environment.  Each fetch of the checkpoint     *)
(* gets one of Responses; each leaf the monitor works on has one of        *)
(* LeafOutcomes.  Roots are not computed here: a checkpoint names the      *)
(* leaves it commits to, "main" for those the log serves, "fork" for       *)
(* others, and two roots are equal exactly when these are.                 *)
(***************************************************************************)
MaxLog == 3
MaxPolls == 3

Checkpoints ==
    { [Size |-> 0, View |-> "main"] }
    \cup { [Size |-> s, View |-> v] : s \in 1..MaxLog, v \in {"main", "fork"} }

\* What a fetch of the log's checkpoint gives: a failure of the fetch, a note
\* that does not verify under the log's key, a note of another origin, or a
\* signed checkpoint of this log.
Responses ==
    { [err |-> e, cp |-> NoCheckpoint] :
        e \in {"fetch failed", "bad signature", "wrong origin"} }
    \cup { [err |-> "", cp |-> c] : c \in Checkpoints }

\* The tracker with the fetched checkpoint as its latest consistent one.
Installed(resp) ==
    [LatestConsistent |-> resp.cp, LatestConsistentRaw |-> RawOf(resp.cp)]

\* LogStateTracker.Update (library code): the results it can have on tracker
\* t when the fetch gives resp and the tiles for a consistency proof can
\* (tilesOK) or cannot be fetched.  A larger checkpoint is installed once it
\* is proved consistent.  For a checkpoint that is not larger and not the
\* tracked one, the library's versions differ; each of refusing it, keeping
\* the tracked one and installing it is admitted.
UpdateOutcomes(t, resp, tilesOK) ==
    IF resp.err # ""
    THEN { [err |-> resp.err, st |-> t] }
    ELSE IF t.LatestConsistent.Size = 0
    THEN { [err |-> "", st |-> Installed(resp)] }
    ELSE IF resp.cp.Size > t.LatestConsistent.Size
    THEN IF ~tilesOK
         THEN { [err |-> "fetch failed", st |-> t] }
         ELSE IF resp.cp.View # t.LatestConsistent.View
         THEN { [err |-> "inconsistent", st |-> t] }
         ELSE { [err |-> "", st |-> Installed(resp)] }
    ELSE IF resp.cp = t.LatestConsistent
    THEN { [err |-> "", st |-> t] }
    ELSE { [err |-> "inconsistent", st |-> t],
           [err |-> "", st |-> t],
           [err |-> "", st |-> Installed(resp)] }

\* A state file cut short.
Partial == <<"note">>

\* Mutant: the monitor never takes itself for new.
IsNewNever(state) == FALSE

\* state == nil: ioutil.ReadFile found no file.
IsNew(state) == state = NoFile

\* A state file that is there and has no bytes: ioutil.ReadFile gives an
\* empty slice that is not nil.
EmptyFile == <<>>

\* stateTrackerFromFlags: with no state, or with one of no bytes,
\* NewLogStateTracker has nothing to parse and the tracker's first Update
\* takes the log's checkpoint on trust; with a state the tracker starts from
\* it.
StateTrackerFromFlags(state, u) ==
    IF state = NoFile \/ state = EmptyFile
    THEN [err |-> u.err, st |-> u.st, isNew |-> IsNew(state)]
    ELSE IF Len(state) = 2
    THEN [err |-> "",
          st |-> [LatestConsistent |-> state[2], LatestConsistentRaw |-> state],
          isNew |-> IsNew(state)]
    ELSE [err |-> "bad state", st |-> ZeroTracker, isNew |-> IsNew(state)]

\* Mutant: an unchanged size counts as news.
AdvancedOrSame(size, head) == size >= head

\* st.LatestConsistent.Size > lastHead
Advanced(size, head) == size > head

\* What the log's server does with a request: no answer (0), or an answer
\* with status 200, 404 or 500.
Statuses == {0, 200, 404, 500}

\* The fetcher of the monitor's newFetcher: http.Get, then the body of
\* whatever answer came.  The status is not looked at.
MonitorFetch(status) ==
    IF status = 0 THEN [err |-> "no response", body |-> "none"]
    ELSE [err |-> "", body |-> IF status = 200 THEN "content" ELSE "error page"]

\* What can happen to a leaf that was fetched with result f on its way to
\* the handler: without bytes the fetch has failed; the bytes of an error
\* page are not the leaf the checkpoint commits to.
OutcomesAfter(f) ==
    IF f.err # "" THEN {"fetch failed"}
    ELSE IF f.body # "content" THEN {"proof failed", "bad proof"}
    ELSE { "ok", "proof failed", "bad proof", "unknown signer",
           "malformed note", "bad json", "handler error" }

\* What can happen to one leaf on its way to the handler.
LeafOutcomes ==
    { "ok", "fetch failed", "proof failed", "bad proof", "unknown signer",
      "malformed note", "bad json", "handler error" }

\* A leaf as the log serves it: whether the tiles for its inclusion proof can
\* be had (built), whether the proof verifies against the checkpoint's root
\* (valid), whose signature its note carries ("release", "unknown" for a key
\* that is not a release key, "none" for bytes that are no note), whether
\* its text is a FirmwareRelease (json), and what the handler makes of it.
GoodLeaf ==
    [built |-> TRUE, valid |-> TRUE, signer |-> "release", json |-> TRUE, handler |-> TRUE]

\* The good leaf, the leaves that are wrong in one respect, and leaves that
\* are wrong in two.
LeafConditions ==
    { GoodLeaf,
      [GoodLeaf EXCEPT !.built = FALSE],
      [GoodLeaf EXCEPT !.valid = FALSE],
      [GoodLeaf EXCEPT !.signer = "unknown"],
      [GoodLeaf EXCEPT !.signer = "none"],
      [GoodLeaf EXCEPT !.json = FALSE],
      [GoodLeaf EXCEPT !.handler = FALSE],
      [GoodLeaf EXCEPT !.valid = FALSE, !.signer = "unknown"],
      [GoodLeaf EXCEPT !.signer = "unknown", !.json = FALSE] }

\* Mutant: the note is parsed without its signature being checked.
LeafOutcomeSignerUnchecked(f, cond) ==
    IF f.err # "" THEN "fetch failed"
    ELSE IF ~cond.built THEN "proof failed"
    ELSE IF ~cond.valid \/ f.body # "content" THEN "bad proof"
    ELSE IF cond.signer = "none" THEN "malformed note"
    ELSE IF ~cond.json THEN "bad json"
    ELSE IF ~cond.handler THEN "handler error"
    ELSE "ok"

\* The body of From's loop on a leaf fetched with result f: the first of its
\* steps that fails, in the order of the code, or "ok".
LeafOutcome(f, cond) ==
    IF f.err # "" THEN "fetch failed"
    ELSE IF ~cond.built THEN "proof failed"
    ELSE IF ~cond.valid \/ f.body # "content" THEN "bad proof"
    ELSE IF cond.signer = "unknown" THEN "unknown signer"
    ELSE IF cond.signer # "release" THEN "malformed note"
    ELSE IF ~cond.json THEN "bad json"
    ELSE IF ~cond.handler THEN "handler error"
    ELSE "ok"

\* Mutant: what the handler returns is dropped.
LeafErrorHandlerDropped(outcome, cp) ==
    IF outcome = "fetch failed" THEN "failed to get leaf"
    ELSE IF outcome = "proof failed" THEN "failed to get inclusion proof"
    ELSE IF outcome = "bad proof" \/ cp.View = "fork" THEN "VerifyInclusionProof()"
    ELSE IF outcome = "unknown signer" THEN "unknown signer"
    ELSE IF outcome = "malformed note" THEN "failed to open leaf note"
    ELSE IF outcome = "bad json" THEN "failed to unmarshal release"
    ELSE ""

\* The body of From's loop for one leaf: the error it returns, "" for none.
LeafError(outcome, cp) ==
    IF outcome = "fetch failed" THEN "failed to get leaf"
    ELSE IF outcome = "proof failed" THEN "failed to get inclusion proof"
    ELSE IF outcome = "bad proof" \/ cp.View = "fork" THEN "VerifyInclusionProof()"
    ELSE IF outcome = "unknown signer" THEN "unknown signer"
    ELSE IF outcome = "malformed note" THEN "failed to open leaf note"
    ELSE IF outcome = "bad json" THEN "failed to unmarshal release"
    ELSE IF outcome = "handler error" THEN "handler()"
    ELSE ""

\* The loop reached m.handler for the leaf of this entry of the trace.
HandlerInvoked(e) ==
    e.outcome \in {"ok", "handler error"} /\ e.cp.View # "fork"

\* The handler's invocations in the current From call, in their order.
Handled == SelectSeq(trace, HandlerInvoked)

\* Mutant: the loop steps over a leaf.
NextIndexSkip(i) == i + 2

\* i++
NextIndex(i) == i + 1

\* While the monitor runs, no call of Bundle is under way.
BundleIdle ==
    /\ pb = [NewCheckpoint |-> Sign(<<>>, LogKey), FirmwareRelease |-> Sign(<<>>, FwKey),
             LeafHashes |-> <<>>]
    /\ oldCP = ZeroCheckpoint
    /\ logSigV = LogKey
    /\ frSigV = FwKey
    /\ artifactHashes = <<>>
    /\ firmwareHash = <<>>
    /\ origin = TestLogOrigin
    /\ pc = "idle"
    /\ newCP = ZeroCheckpoint
    /\ manifestHash = <<>>
    /\ tree = NewEmptyRange
    /\ manifestFound = FALSE
    /\ oldCPFound = FALSE
    /\ newCPFound = FALSE
    /\ fr = ZeroFirmwareRelease
    /\ todo = {}
    /\ err = ""

\* The state file at start-up: none, the checkpoint an earlier run stored, or
\* what a cut-short write left.
InitialFiles == {NoFile, EmptyFile, Partial} \cup { RawOf(c) : c \in Checkpoints }

MonitorInit ==
    /\ BundleIdle
    /\ mpc = "start"
    /\ file \in InitialFiles
    /\ st = ZeroTracker
    /\ mst = ZeroTracker
    /\ isNew = FALSE
    /\ lastHead = 0
    /\ start = 0
    /\ fromCP = NoCheckpoint
    /\ idx = 0
    /\ polls = 0
    /\ exitErr = ""
    /\ updErr = ""
    /\ trace = <<>>
    /\ fromCalls = 0
    /\ fileAtCall = file
    /\ file0 = file
    /\ handledTo = IF Len(file) = 2 THEN file[2].Size ELSE 0
    /\ ctxDone = NotDone
    /\ UnmarshalIdle
    /\ CreateBundleIdle

\* glog.Exitf
Exit(e) ==
    /\ mpc' = "exited"
    /\ exitErr' = e

\* main up to its loop: the tracker from the flags, the Monitor built around
\* a copy of it, and From(0) if the monitor is new.
MStart ==
    /\ mpc = "start"
    /\ \E resp \in Responses :
         \E u \in UpdateOutcomes(ZeroTracker, resp, TRUE) :
           LET r == StateTrackerFromFlags(file, u)
           IN  /\ st' = r.st
               /\ isNew' = r.isNew
               /\ updErr' = IF file \in {NoFile, EmptyFile} THEN u.err ELSE ""
               /\ IF r.err # ""
                  THEN /\ Exit("Failed to create new LogStateTracker")
                       /\ UNCHANGED mst
                  ELSE /\ mst' = r.st
                       /\ mpc' = IF r.isNew THEN "from_start" ELSE "poll"
                       /\ UNCHANGED exitErr
    /\ start' = 0
    /\ UNCHANGED <<file, lastHead, fromCP, idx, polls, trace, fromCalls, fileAtCall, file0>>
    /\ UNCHANGED <<ctxDone, handledTo>>
    /\ UNCHANGED <<vars, uvars, cvars>>

\* One turn of main's loop up to the select: remember the size, update the
\* tracker, and call From if the size went up.
MPoll ==
    /\ mpc = "poll"
    /\ polls < MaxPolls
    /\ polls' = polls + 1
    /\ lastHead' = st.LatestConsistent.Size
    /\ \E resp \in Responses, tilesOK \in BOOLEAN :
         \E u \in UpdateOutcomes(st, resp, tilesOK) :
           /\ st' = u.st
           /\ updErr' = u.err
           /\ IF u.err # ""
              THEN Exit("Failed to update checkpoint") /\ UNCHANGED <<start, trace>>
              ELSE /\ UNCHANGED exitErr
                   /\ IF Advanced(u.st.LatestConsistent.Size, st.LatestConsistent.Size)
                      THEN /\ mpc' = "from_start"
                           /\ start' = st.LatestConsistent.Size
                           /\ trace' = <<>>
                      ELSE mpc' = "wait" /\ UNCHANGED <<start, trace>>
    /\ UNCHANGED <<file, mst, isNew, fromCP, idx, fromCalls, fileAtCall, file0>>
    /\ UNCHANGED <<ctxDone, handledTo>>
    /\ UNCHANGED <<vars, uvars, cvars>>

\* From, up to its loop: the checkpoint of the Monitor's tracker and a proof
\* builder for it.
MFromStart ==
    /\ mpc = "from_start"
    /\ fromCP' = mst.LatestConsistent
    /\ fromCalls' = fromCalls + 1
    /\ fileAtCall' = file
    /\ idx' = start
    /\ \E built \in BOOLEAN :
         IF built
         THEN mpc' = "from_loop" /\ UNCHANGED exitErr
         ELSE Exit("failed to construct proof builder")
    /\ UNCHANGED <<file, st, mst, isNew, lastHead, start, polls, updErr, trace, file0>>
    /\ UNCHANGED <<ctxDone, handledTo>>
    /\ UNCHANGED <<vars, uvars, cvars>>

\* One iteration of From's loop.
MFromLeaf ==
    /\ mpc = "from_loop"
    /\ idx < fromCP.Size
    /\ \E status \in Statuses, cond \in LeafConditions :
       \E outcome \in LeafOutcomes \cap OutcomesAfter(MonitorFetch(status)) :
         LET e == LeafError(outcome, fromCP)
         IN  /\ outcome = LeafOutcome(MonitorFetch(status), cond)
             /\ trace' = Append(trace, [i |-> idx, cp |-> fromCP, outcome |-> outcome,
                                        status |-> status,
                                        fetchErr |-> MonitorFetch(status).err,
                                        cond |-> cond])
             /\ IF e # ""
                THEN Exit(e) /\ UNCHANGED <<idx, handledTo>>
                ELSE /\ idx' = NextIndex(idx)
                     /\ handledTo' = IF idx = handledTo THEN handledTo + 1 ELSE handledTo
                     /\ UNCHANGED <<mpc, exitErr>>
    /\ UNCHANGED <<file, st, mst, isNew, lastHead, start, fromCP, polls, updErr,
                   fromCalls, fileAtCall, file0>>
    /\ UNCHANGED ctxDone
    /\ UNCHANGED <<vars, uvars, cvars>>

\* ioutil.WriteFile, first half: the file is opened for writing and cut to
\* length zero, or cannot be opened.
MWriteOpen ==
    /\ mpc = "from_loop"
    /\ idx >= fromCP.Size
    /\ \E opened \in BOOLEAN :
         IF opened
         THEN file' = <<>> /\ mpc' = "from_write" /\ UNCHANGED exitErr
         ELSE Exit("open state file") /\ UNCHANGED file
    /\ UNCHANGED <<st, mst, isNew, lastHead, start, fromCP, idx, polls, updErr, trace, fromCalls, fileAtCall, file0>>
    /\ UNCHANGED <<ctxDone, handledTo>>
    /\ UNCHANGED <<vars, uvars, cvars>>

\* ioutil.WriteFile, second half: the bytes are written, all of them or, on
\* an error, some; From returns to main.
MWriteData ==
    /\ mpc = "from_write"
    /\ \E written \in {"all", "some", "none"} :
         IF written = "all"
         THEN /\ file' = mst.LatestConsistentRaw
              /\ mpc' = IF polls = 0 THEN "poll" ELSE "wait"
              /\ UNCHANGED exitErr
         ELSE /\ file' = IF written = "some" THEN Partial ELSE file
              /\ Exit("write state file")
    /\ UNCHANGED <<st, mst, isNew, lastHead, start, fromCP, idx, polls, updErr, trace, fromCalls, fileAtCall, file0>>
    /\ UNCHANGED <<ctxDone, handledTo>>
    /\ UNCHANGED <<vars, uvars, cvars>>

\* The select at the end of main's loop: the ticker fires, or ctx is done and
\* main returns.  With both ready the select takes either.
MTick ==
    /\ mpc = "wait"
    /\ \/ mpc' = "poll"
       \/ ctxDone # NotDone /\ mpc' = "exited"
    /\ UNCHANGED <<file, st, mst, isNew, lastHead, start, fromCP, idx, polls,
                   exitErr, updErr, trace, fromCalls, fileAtCall, file0>>
    /\ UNCHANGED <<ctxDone, handledTo>>
    /\ UNCHANGED <<vars, uvars, cvars>>

\* ctx, the context main and From run under, is cancelled.  Neither From nor
\* the fetcher of newFetcher (http.Get without the context) looks at it; only
\* the select of main's loop does.
MCancel ==
    /\ mpc \in {"poll", "wait", "from_start", "from_loop", "from_write"}
    /\ ctxDone = NotDone
    /\ ctxDone' = [at |-> mpc, call |-> fromCalls]
    /\ UNCHANGED handledTo
    /\ UNCHANGED <<mpc, file, st, mst, isNew, lastHead, start, fromCP, idx, polls,
                   exitErr, updErr, trace, fromCalls, fileAtCall, file0>>
    /\ UNCHANGED <<vars, uvars, cvars>>

\* The process is killed where it stands.
MCrash ==
    /\ mpc \in {"start", "poll", "wait", "from_start", "from_loop", "from_write"}
    /\ mpc' = "crashed"
    /\ UNCHANGED <<file, st, mst, isNew, lastHead, start, fromCP, idx, polls,
                   exitErr, updErr, trace, fromCalls, fileAtCall, file0>>
    /\ UNCHANGED <<ctxDone, handledTo>>
    /\ UNCHANGED <<vars, uvars, cvars>>

MonitorNext ==
    \/ MStart
    \/ MPoll
    \/ MFromStart
    \/ MFromLeaf
    \/ MWriteOpen
    \/ MWriteData
    \/ MTick
    \/ MCancel
    \/ MCrash

MonitorSpec == MonitorInit /\ [][MonitorNext]_<<mvars, vars>>

(***************************************************************************)
(* Properties of the monitor.                                              *)
(***************************************************************************)
\* The leaf of this entry of the trace did not get through From's loop.
LeafFailed(e) == e.outcome # "ok" \/ e.cp.View = "fork"

\* From has returned nil to main's loop after a poll that raised the size.
ReturnedAfterAdvance == mpc = "wait" /\ st.LatestConsistent.Size > lastHead

\* From(0) has returned nil to main before the first poll.
ReturnedAtStartup == mpc = "poll" /\ polls = 0 /\ fromCalls = 1

\* C11: when a poll's Update raises the tracker's latest consistent
\* checkpoint from size p to size n > p, the From(p) that follows verifies
\* against the size-n checkpoint, and hands to the handler, every leaf index
\* p <= i < n, each once, before the next poll.
C11_NewLeavesHandled ==
    ReturnedAfterAdvance =>
        LET p == lastHead
            n == st.LatestConsistent.Size
        IN  /\ Len(Handled) = n - p
            /\ \A k \in 1..Len(Handled) :
                 /\ Handled[k].i = p + k - 1
                 /\ Handled[k].cp = st.LatestConsistent

\* C12: after a From call that returns without error, the state file holds
\* exactly the raw signed bytes of the tracker's latest consistent
\* checkpoint, the one the most recent successful Update accepted.
C12_StateFileIsLatest ==
    (ReturnedAfterAdvance \/ ReturnedAtStartup) => file = st.LatestConsistentRaw

\* C13: if a step of From fails for some leaf, From returns the error, no
\* later leaf is worked on, and the state file is as it was before the call.
C13_LeafFailureStops ==
    \A k \in 1..Len(trace) :
        LeafFailed(trace[k]) =>
            /\ k = Len(trace)
            /\ mpc = "exited"
            /\ exitErr # ""
            /\ file = fileAtCall

\* From fails on its third leaf, in the handler.
C13_Witness ==
    /\ Len(trace) = 3
    /\ trace[3].outcome = "handler error"
    /\ file0 = NoFile
    /\ mpc = "exited"

\* C14: within one From(start) call the handler is invoked with the indices
\* start, start+1, ... in strictly increasing order, none skipped or
\* repeated, up to the last index below the checkpoint's size or the first
\* failure.
C14_HandlerOrder ==
    /\ \A k \in 1..Len(Handled) : Handled[k].i = start + k - 1
    /\ \A k \in 1..Len(trace) : trace[k].i = start + k - 1
    /\ (mpc = "from_write" \/ (mpc = "from_loop" /\ idx >= fromCP.Size)) =>
          /\ Len(Handled) = IF fromCP.Size > start THEN fromCP.Size - start ELSE 0
          /\ Len(trace) = Len(Handled)

\* From has handed all of three leaves to the handler and is about to write.
C14_Witness ==
    /\ mpc = "from_write"
    /\ Len(Handled) = 3
    /\ Handled[3].i = 2

\* C15: the state file is updated atomically: at every moment, also after a
\* crash or a failure part-way through persisting, it holds the complete
\* previous signed checkpoint or the complete new one.
C15_AtomicStateFile ==
    fromCalls > 0 => file \in {fileAtCall, mst.LatestConsistentRaw, st.LatestConsistentRaw}

\* C17: with no state file at start-up the monitor takes the first fetched
\* checkpoint on trust, runs From(0) over every leaf index in [0, size)
\* before it polls, and creates the state file only after all of those
\* leaves were verified and handled.
C17_FirstRun ==
    file0 = NoFile =>
        /\ (mpc \in {"poll", "wait"} \/ polls > 0) => (fromCalls >= 1 /\ file # NoFile)
        /\ (fromCalls = 1 /\ polls = 0) => (start = 0 /\ fromCP = st.LatestConsistent)
        /\ (polls = 0 /\ file # NoFile) =>
              /\ fromCalls = 1
              /\ Len(Handled) = st.LatestConsistent.Size
              /\ \A k \in 1..Len(Handled) :
                   /\ Handled[k].i = k - 1
                   /\ Handled[k].outcome = "ok"
                   /\ Handled[k].cp = st.LatestConsistent

\* A new monitor has handled the three leaves of the first checkpoint, has
\* written the state file and is about to poll for the first time.
C17_Witness ==
    /\ file0 = NoFile
    /\ mpc = "poll"
    /\ polls = 0
    /\ st.LatestConsistent.Size = 3
    /\ file = st.LatestConsistentRaw

\* C18: a poll whose Update leaves the size of the latest checkpoint
\* unchanged starts no From call, invokes no handler and writes nothing to
\* the state file.
C18_StalePollIsNoOp ==
    [][ /\ (mpc = "poll" /\ polls' = polls + 1 /\ mpc' \notin {"exited", "crashed"}
              /\ st'.LatestConsistent.Size = st.LatestConsistent.Size)
           => (mpc' = "wait" /\ UNCHANGED <<file, trace, fromCalls>>)
        /\ mpc = "wait" => UNCHANGED <<file, trace, fromCalls>> ]_<<mvars, vars>>

\* A monitor that tracks a checkpoint of two leaves has polled, found the
\* same checkpoint, and waits for the next tick.
C18_Witness ==
    /\ mpc = "wait"
    /\ polls = 1
    /\ lastHead = 2
    /\ st.LatestConsistent = [Size |-> 2, View |-> "main"]
    /\ file = st.LatestConsistentRaw

\* C20: a transient failure of a fetch during a poll or during From does not
\* stop the monitor.
C20_TransientFailureSurvived ==
    ~ /\ mpc = "exited"
      /\ \/ exitErr = "Failed to update checkpoint" /\ updErr = "fetch failed"
         \/ exitErr \in {"failed to get leaf", "failed to get inclusion proof"}

\* ctx was cancelled while the current From call was in its loop, before the
\* write of the state file began.
CancelledInFrom == ctxDone.at = "from_loop" /\ ctxDone.call = fromCalls

\* C21: a From call during which the monitor's context is cancelled does not
\* write the state file: the file stays what it was when From was called.
C21_CancelledFromKeepsFile ==
    CancelledInFrom => file = fileAtCall

\* C27: the fetcher answers a 404 of the log with an error of its own kind,
\* apart from a successful fetch and from other failures: for every leaf
\* the monitor asked for and got a 404, GetLeaf returned that error.
C27_NotFoundDistinguished ==
    \A k \in 1..Len(trace) :
        trace[k].status = 404 => trace[k].fetchErr = "not found"

(***************************************************************************)
(* Checkpoint.Unmarshal on its own (api/checkpoint.go, and the table of    *)
(* api/checkpoint_test.go): the inputs and the call.                       *)
(***************************************************************************)
\* "bananas", the root of the test's valid checkpoint.
Bananas == <<98,97,110,97,110,97,115>>

\* First lines: none, "A", the test's origin.
OriginLines == { <<>>, <<65>>, TestLogOrigin }

\* Second lines: "", "0", "7", "007", "123", "-34", "+3", "bananas", "1x",
\* " 1", "999999999", "1000000000", 2^64 - 1, 2^64, "0" and 2^64 - 1, and the
\* test's "3438945738945739845734895735".
SizeLines ==
    { <<>>, <<48>>, <<55>>, <<48,48,55>>, <<49,50,51>>, <<45,51,52>>, <<43,51>>,
      Bananas, <<49,120>>, <<32,49>>,
      <<57,57,57,57,57,57,57,57,57>>,
      <<49,48,48,48,48,48,48,48,48,48>>,
      MaxUint64Numeral,
      <<49,56,52,52,54,55,52,52,48,55,51,55,48,57,53,53,49,54,49,54>>,
      <<48>> \o MaxUint64Numeral,
      <<51,52,51,56,57,52,53,55,51,56,57,52,53,55,51,57,56,52,53,55,51,52,56,57,53,55,51,53>> }

\* Third lines: "", "YQ==", "YWI=", "YWJj", the encodings of "bananas", of a
\* digest and of the bytes 251 255 ("+/8="), then "YQ=", "YQ", "Y===",
\* "YQ==YWJj", "YQ=a", "Y!==", "YWJ-", "YR==", "ThisIsn'tBase64", "YQ==" with a
\* carriage return, and " YQ==".
RootLines ==
    { <<>>, <<89,81,61,61>>, <<89,87,73,61>>, <<89,87,74,106>>,
      EncodeToString(Bananas), EncodeToString(Sum256(<<>>)),
      EncodeToString(<<251,255>>),
      <<89,81,61>>, <<89,81>>, <<89,61,61,61>>,
      <<89,81,61,61,89,87,74,106>>, <<89,81,61,97>>, <<89,33,61,61>>,
      <<89,87,74,45>>, <<89,82,61,61>>,
      <<84,104,105,115,73,115,110,39,116,66,97,115,101,54,52>>,
      <<89,81,61,61,13>>, <<32,89,81,61,61>> }

Framings ==
    { "three lines", "no last newline", "extra newline", "extra newlines",
      "trailing data", "trailing lines", "two lines", "one line" }

\* The three lines o, s, r put together as framing f has it.
Frame(o, s, r, f) ==
    IF f = "three lines" THEN o \o NL \o s \o NL \o r \o NL
    ELSE IF f = "no last newline" THEN o \o NL \o s \o NL \o r
    ELSE IF f = "extra newline" THEN o \o NL \o s \o NL \o r \o NL \o NL
    ELSE IF f = "extra newlines" THEN o \o NL \o s \o NL \o r \o NL \o NL \o NL \o NL
    ELSE IF f = "trailing data" THEN o \o NL \o s \o NL \o r \o NL \o <<120>>
    ELSE IF f = "trailing lines" THEN o \o NL \o s \o NL \o r \o NL \o <<120>> \o NL \o <<121>> \o NL
    ELSE IF f = "two lines" THEN o \o NL \o s \o NL
    ELSE o \o NL

\* The inputs Unmarshal is called on.
UnmarshalInputs ==
    { Frame(o, s, r, f) :
        o \in OriginLines, s \in SizeLines, r \in RootLines, f \in Framings }
    \cup { <<>> }

\* The receivers it is called on: var got Checkpoint, and one that holds a
\* checkpoint already.
Receivers ==
    { ZeroCheckpoint, [Origin |-> <<66>>, Size |-> 5, Hash |-> <<1, 2>>] }

UnmarshalInit ==
    /\ BundleIdle
    /\ MonitorIdle
    /\ CreateBundleIdle
    /\ upc = "call"
    /\ input \in UnmarshalInputs
    /\ before \in Receivers
    /\ got = before
    /\ gotErr = ""

\* gotErr := got.Unmarshal([]byte(test.m))
UnmarshalCall ==
    /\ upc = "call"
    /\ LET u == Unmarshal(got, input)
       IN  /\ got' = u.c
           /\ gotErr' = u.err
    /\ upc' = "done"
    /\ UNCHANGED <<input, before>>
    /\ UNCHANGED <<vars, mvars, cvars>>

UnmarshalNext == UnmarshalCall

UnmarshalSpec == UnmarshalInit /\ [][UnmarshalNext]_<<uvars, vars, mvars>>

(***************************************************************************)
(* Properties of Checkpoint.Unmarshal.  The lines of an input are found    *)
(* here from the positions of its newlines, and the fields are judged by   *)
(* their grammar, not by the parsers.                                      *)
(***************************************************************************)
\* The positions of the newlines of d.
NLPositions(d) == { k \in 1..Len(d) : d[k] = 10 }

\* d is three lines, each ended by a newline, and nothing more.
ThreeLines(d) == Cardinality(NLPositions(d)) = 3 /\ d[Len(d)] = 10

\* The k-th newline of d.
NthNL(d, k) ==
    CHOOSE p \in NLPositions(d) :
        Cardinality({ q \in NLPositions(d) : q < p }) = k - 1

\* The k-th line of d, without its newline (k is at most the number of
\* newlines of d).
Line(d, k) ==
    SubSeq(d, IF k = 1 THEN 1 ELSE NthNL(d, k - 1) + 1, NthNL(d, k) - 1)

\* a <= b for numerals of equal length.
NumeralLeq(a, b) ==
    \/ a = b
    \/ \E k \in 1..Len(a) : a[k] < b[k] /\ \A j \in 1..(k - 1) : a[j] = b[j]

\* The number of leading zeros of s that can go without emptying it.
LeadingZeros(s) ==
    CHOOSE n \in 0..(Len(s) - 1) :
        /\ \A j \in 1..n : s[j] = 48
        /\ (n = Len(s) - 1 \/ s[n + 1] # 48)

\* s is an unsigned decimal numeral of a number below 2^64.
IsUint64Numeral(s) ==
    /\ Len(s) > 0
    /\ \A k \in 1..Len(s) : s[k] \in 48..57
    /\ LET z == SubSeq(s, LeadingZeros(s) + 1, Len(s))
       IN  Len(z) < 20 \/ (Len(z) = 20 /\ NumeralLeq(z, MaxUint64Numeral))

NotCR(ch) == ch # 13

IsAlphabet(ch) == ch \in (65..90) \cup (97..122) \cup (48..57) \cup {43, 47}

\* s is padded base64 of the standard alphabet: quanta of four characters,
\* with '=' in the last one or two places of the last quantum only.  As in
\* MIME, and as encoding/base64 documents for its decoders, carriage returns
\* within s are not part of the encoding and do not count.
IsStdBase64(s) ==
    LET t == SelectSeq(s, NotCR)
        n == Len(t)
    IN  /\ n % 4 = 0
        /\ \A k \in 1..n :
             IsAlphabet(t[k]) \/ (t[k] = 61 /\ k \in {n - 1, n} /\ t[n] = 61)

\* C22: Unmarshal accepts only input that consists of exactly three lines,
\* each ended by a newline, with nothing after the third newline; it rejects
\* input with fewer than three newlines (a root line without its newline
\* included) and input with any byte after the third newline.
C22_ExactlyThreeLines ==
    upc = "done" => (gotErr = "" => ThreeLines(input))

\* The test's valid checkpoint followed by one more newline is rejected for
\* its trailing data.
C22_Witness ==
    /\ upc = "done"
    /\ input = Frame(TestLogOrigin, <<49,50,51>>, EncodeToString(Bananas), "extra newline")
    /\ gotErr = "trailing data"

WellFormedCheckpoints ==
    { [Origin |-> o, Size |-> s, Hash |-> h] :
        o \in { <<65>>, TestLogOrigin },
        s \in { 0, 7, 123, 999999999 },
        h \in { <<>>, <<97>>, Bananas, <<251,255>>, Sum256(<<>>) } }

WideCheckpoints ==
    { [Origin |-> o, Size |-> s, Hash |-> h] :
        o \in { <<65>>, TestLogOrigin },
        s \in { <<49,48,48,48,48,48,48,48,48,48>>, MaxUint64Numeral },
        h \in { <<>>, <<97>>, Bananas, <<251,255>>, Sum256(<<>>) } }

\* origin, decimal size and base64 root, each followed by a newline.
TextOf(w) == MakeCheckpoint(w.Origin, w.Size, w.Hash, LogKey).text

TextOfWide(w) == w.Origin \o NL \o w.Size \o NL \o EncodeToString(w.Hash) \o NL

\* C24: for every well-formed checkpoint, Unmarshal of its textual form
\* succeeds and yields exactly that checkpoint, whatever the receiver held.
C24_RoundTrip ==
    upc = "done" =>
        /\ \A w \in WellFormedCheckpoints :
             input = TextOf(w) => (gotErr = "" /\ got = w)
        /\ \A w \in WideCheckpoints :
             input = TextOfWide(w) => (gotErr = "" /\ got = w)

\* The text of a checkpoint of size 2^64 - 1 with a root that encodes to
\* "+/8=" was unmarshalled into a receiver that held another checkpoint.
C24_Witness ==
    /\ upc = "done"
    /\ before # ZeroCheckpoint
    /\ input = TextOfWide([Origin |-> TestLogOrigin, Size |-> MaxUint64Numeral,
                           Hash |-> <<251,255>>])
    /\ gotErr = ""

\* C25: when Unmarshal returns an error the receiver is as it was before
\* the call.
C25_ReceiverKeptOnError ==
    (upc = "done" /\ gotErr # "") => got = before

\* A receiver that held a checkpoint went through a call that failed on the
\* root line, after the origin and the size had been read.
C25_Witness ==
    /\ upc = "done"
    /\ before # ZeroCheckpoint
    /\ gotErr = "invalid hash"
    /\ got = before

(***************************************************************************)
(* More properties of Bundle.                                              *)
(***************************************************************************)
\* C26: after Bundle has appended the first k leaf hashes of the bundle to
\* the compact range, the root of the range is the Merkle Tree Hash of
\* RFC 6962 of those k leaf hashes, for every prefix length k it gets to.
C26_RunningRoot ==
    tree.end >= 1 =>
        GetRootHash(tree) = MerkleTreeHash(SubSeq(pb.LeafHashes, 1, tree.end))

\* Three leaf hashes are in: the range holds the root of the first two and
\* the third leaf, and its root folds them.
C26_Witness ==
    /\ pc = "loop"
    /\ tree.end = 3
    /\ Len(tree.hashes) = 2

\* C29 as stated: every checkpoint that Unmarshal has accepted, and so the
\* new checkpoint Bundle works with from its leaf-count check on, has a root
\* of exactly HashSize = 32 bytes.
C29_RootIs32Bytes ==
    pc \in {"count", "loop", "release", "artifacts"} => Len(newCP.Hash) = HashSize

\* C29, amended: Unmarshal takes a root of any length, and the new
\* checkpoint of every bundle that Bundle accepts has a root of exactly
\* HashSize = 32 bytes.
C29_AcceptedRootIs32Bytes ==
    Accepted => Len(newCP.Hash) = HashSize

\* A bundle of one leaf is accepted: the root of its checkpoint is the leaf
\* hash of the manifest.
C29_Witness ==
    /\ Accepted
    /\ Len(pb.LeafHashes) = 1
    /\ newCP.Hash = manifestHash

\* What decides a call whose old checkpoint has size 0: nothing of oldCP.
DecisionWithoutOldCP ==
    /\ ReleaseGood
    /\ Len(pb.LeafHashes) >= 1
    /\ CheckpointGood
    /\ SignedCheckpoint.c.Size = Len(pb.LeafHashes)
    /\ ManifestIncluded
    /\ SignedCheckpoint.c.Hash = MerkleTreeHash(pb.LeafHashes)
    /\ ArtifactsMatch

\* C30: with oldCP.Size = 0 the old checkpoint plays no part: Bundle accepts
\* exactly when the other arguments pass, so two old checkpoints of size 0
\* that differ in Hash or Origin get the same result on the same bundle.
C30_EmptyOldCPIgnored ==
    (Done /\ oldCP.Size = 0) => (err = "" <=> DecisionWithoutOldCP)

\* A bundle is accepted against an old checkpoint of size 0 that names an
\* origin and holds a hash that is no root of the bundle's leaves.
C30_Witness ==
    /\ Accepted
    /\ oldCP.Size = 0
    /\ oldCP.Origin = TestLogOrigin
    /\ oldCP.Hash = GarbageHash

\* The positions of the manifest's leaf hash in the bundle.
ManifestPositions ==
    { k \in 1..Len(pb.LeafHashes) :
        pb.LeafHashes[k] = HashLeaf(NoteBytes(pb.FirmwareRelease)) }

\* C31: inclusion is latched at the first leaf hash equal to
\* HashLeaf(pb.FirmwareRelease): manifestFound is set exactly when one of the
\* leaves visited so far matched, no later leaf clears it, and a bundle where
\* the hash occurs several times is decided as one where it occurs once.
C31_InclusionLatched ==
    /\ manifestFound <=> (\E k \in ManifestPositions : k <= tree.end)
    /\ (Done /\ Cardinality(ManifestPositions) >= 2) =>
           (err = "" <=> (ChecksPassed /\ ArtifactsMatch))

\* A bundle is accepted in which the manifest's hash is the first leaf, a
\* leaf that does not match follows, and the hash occurs again after it.
C31_Witness ==
    /\ Accepted
    /\ Len(pb.LeafHashes) = 3
    /\ ManifestPositions = {1, 3}

\* The bundle carries the manifest signed with the log's key, and the bundle
\* that differs from it only in carrying the manifest signed with the release
\* key passes every check of Bundle.
CounterpartAccepted ==
    /\ pb.FirmwareRelease = MakeFirmwareRelease(pb.FirmwareRelease.text, LogKey)
    /\ JSONUnmarshal(pb.FirmwareRelease.text).err = ""
    /\ CheckpointGood
    /\ SignedCheckpoint.c.Size = Len(pb.LeafHashes)
    /\ OldCPConsistent
    /\ \E k \in 1..Len(pb.LeafHashes) :
          pb.LeafHashes[k] = HashLeaf(NoteBytes(ReleaseKeySigned(pb.FirmwareRelease)))
    /\ SignedCheckpoint.c.Hash = MerkleTreeHash(pb.LeafHashes)
    /\ ArtifactsMatch

\* C32 as stated: a bundle that differs from an accepted one only in that the
\* release note is signed with the log's key is rejected with the signature
\* failure on the release.
C32_CrossSignedIsSignatureFailure ==
    (Done /\ CounterpartAccepted) => err = "invalid signature on FirmwareRelease"

\* C32 amended: such a bundle is rejected, never on the leaf count or on
\* consistency: on inclusion when the leaf hash of the note as the log's key
\* signed it is not among the leaf hashes, on the signature of the release
\* when it is.
C32_CrossSignedRejected ==
    (Done /\ CounterpartAccepted) =>
        IF ManifestIncluded
        THEN err = "invalid signature on FirmwareRelease"
        ELSE err = "unable to prove inclusion"

\* The bundle of the log's leaves with the manifest signed by the log's key
\* has been rejected for want of inclusion.
C32_Witness ==
    /\ Done
    /\ CounterpartAccepted
    /\ ~ManifestIncluded
    /\ err = "unable to prove inclusion"

\* C33: Bundle accepts a release only if its artifact_sha256 map has the
\* entry "armory-drive.imx", whatever expected artifacts the caller passes.
C33_ImageEntryRequired ==
    Accepted =>
        FirmwareArtifactName \in
            DOMAIN JSONUnmarshal(pb.FirmwareRelease.text).fr.ArtifactSHA256

\* The tracker main got from stateTrackerFromFlags took its checkpoint from
\* the log: the state file gave it none.
FetchedAtStart == file0 \in {NoFile, EmptyFile}

\* C34: stateTrackerFromFlags returns isNew = true exactly when the
\* tracker's initial checkpoint was fetched from the log rather than loaded
\* from the state file, whether the file was absent, held a checkpoint or
\* was empty.
C34_IsNewIffFetched ==
    st # ZeroTracker => (isNew <=> FetchedAtStart)

\* C35: the handler is invoked for a leaf only after the leaf's inclusion
\* proof has verified against the root of the checkpoint of the Monitor's
\* tracker, its note has opened under the release verifier and its text has
\* parsed as a FirmwareRelease.
C35_HandlerAfterVerification ==
    \A k \in 1..Len(trace) :
        HandlerInvoked(trace[k]) =>
            /\ trace[k].fetchErr = ""
            /\ trace[k].cond.built
            /\ trace[k].cond.valid
            /\ trace[k].cp.View # "fork"
            /\ trace[k].cp = mst.LatestConsistent
            /\ trace[k].cond.signer = "release"
            /\ trace[k].cond.json

\* The handler got two leaves, and From has stopped at a third whose note is
\* signed with a key that is no release key.
C35_Witness ==
    /\ Len(trace) = 3
    /\ HandlerInvoked(trace[1])
    /\ HandlerInvoked(trace[2])
    /\ trace[3].cond.signer = "unknown"
    /\ trace[3].cond.valid
    /\ ~HandlerInvoked(trace[3])
    /\ exitErr = "unknown signer"

(***************************************************************************)
(* create_proofbundle: createBundle, its fetcher, and the log it reads.    *)
(* The log sequences leaves (it gives them an index and lists them under   *)
(* their hash) and integrates them later into the checkpoint it serves.    *)
(***************************************************************************)
\* readHTTP: the server's answer as bytes (err "") or as an error; status 0
\* is no answer at all.
ReadHTTP(status) ==
    IF status = 0 THEN [err |-> "no response"]
    ELSE IF status = 200 THEN [err |-> ""]
    ELSE IF status = 404 THEN [err |-> "not exist"]
    ELSE [err |-> "failed to fetch url"]

\* The fetcher of newFetcher asked for a path the log has (exists) or has
\* not: ioutil.ReadFile for a file URL, which does not look at ctx, and
\* readHTTP otherwise, whose request fails once ctx is done.
FetchResults(sch, expired, exists) ==
    IF sch = "file"
    THEN { [err |-> IF exists THEN "" ELSE "not exist"] }
    ELSE IF expired
    THEN { [err |-> "context deadline exceeded"] }
    ELSE { ReadHTTP(status) : status \in {0, 500} \cup (IF exists THEN {200} ELSE {404}) }

\* release: the signed release note createBundle is called with.
ReleaseNote == MakeFirmwareRelease(ManifestText, FwKey)

\* leafHash := h.HashLeaf(release)
ReleaseLeafHash == HashLeaf(NoteBytes(ReleaseNote))

\* The leaf hashes of the first n leaves of the log, as its tiles hold them:
\* the release's where it was sequenced, those of other entries elsewhere.
LogLeafHashes(n) ==
    [i \in 1..n |-> IF i - 1 = relIdx THEN ReleaseLeafHash ELSE OtherLeafHash]

\* The signed checkpoint the log issued at size n.
LogCheckpoint(n) ==
    MakeCheckpoint(TestLogOrigin, n, MerkleTreeHash(LogLeafHashes(n)), LogKey)

\* &api.ProofBundle{NewCheckpoint: st.LatestConsistentRaw, FirmwareRelease:
\* release, LeafHashes: allLeafHashes} for the checkpoint and the leaf hashes b
\* names.
ProofBundleOf(b) ==
    [NewCheckpoint |-> LogCheckpoint(b.NewCheckpoint),
     FirmwareRelease |-> ReleaseNote,
     LeafHashes |-> LogLeafHashes(b.LeafHashes)]

BundleAndMonitorIdle == BundleIdle /\ MonitorIdle /\ UnmarshalIdle

CreateBundleInit ==
    /\ BundleAndMonitorIdle
    /\ cbpc = "start"
    /\ ctxExpired = FALSE
    /\ scheme \in {"https", "file", "ftp"}
    /\ seqNext \in 0..MaxLog
    /\ logCP \in 0..seqNext
    /\ relIdx \in {-1} \cup 0..(seqNext - 1)
    /\ bst = 0
    /\ bcp = 0
    /\ bidx = 0
    /\ bundle = NoBundle
    /\ cbErr = ""

\* return nil, err
Return(e) ==
    /\ cbpc' = "returned"
    /\ cbErr' = e
    /\ bundle' = NoBundle

\* createBundle up to its loop: the fetcher for the URL's scheme, and a
\* tracker without a checkpoint, which fetches the log's.
CBStart ==
    /\ cbpc = "start"
    /\ IF scheme \notin {"http", "https", "file"}
       THEN Return("failed to create fetcher") /\ UNCHANGED bst
       ELSE \E r \in FetchResults(scheme, ctxExpired, TRUE) :
              IF r.err # ""
              THEN Return("failed to create new LogStateTracker") /\ UNCHANGED bst
              ELSE bst' = logCP /\ cbpc' = "select" /\ UNCHANGED <<cbErr, bundle>>
    /\ UNCHANGED <<ctxExpired, scheme, seqNext, logCP, relIdx, bcp, bidx>>
    /\ UNCHANGED <<vars, mvars, uvars>>

\* select, case <-ticker.C: the ticker is set to five seconds and the loop
\* body runs.
CBSelectTick ==
    /\ cbpc = "select"
    /\ cbpc' = "update"
    /\ UNCHANGED <<ctxExpired, scheme, seqNext, logCP, relIdx, bst, bcp, bidx, bundle, cbErr>>
    /\ UNCHANGED <<vars, mvars, uvars>>

\* Mutant: the select has no case for ctx.Done().
CBSelectNoDeadline ==
    /\ cbpc = "select"
    /\ FALSE
    /\ UNCHANGED <<cbpc, ctxExpired, scheme, seqNext, logCP, relIdx, bst, bcp, bidx, bundle, cbErr>>
    /\ UNCHANGED <<vars, mvars, uvars>>

\* select, case <-ctx.Done(): return nil, ctx.Err()
CBSelectDone ==
    /\ cbpc = "select"
    /\ ctxExpired
    /\ Return("context deadline exceeded")
    /\ UNCHANGED <<ctxExpired, scheme, seqNext, logCP, relIdx, bst, bcp, bidx>>
    /\ UNCHANGED <<vars, mvars, uvars>>

\* st.Update(ctx); cp := st.LatestConsistent
CBUpdate ==
    /\ cbpc = "update"
    /\ \E r \in FetchResults(scheme, ctxExpired, TRUE) :
         IF r.err # ""
         THEN Return("failed to update LogState") /\ UNCHANGED <<bst, bcp>>
         ELSE /\ bst' = logCP
              /\ bcp' = logCP
              /\ cbpc' = "lookup"
              /\ UNCHANGED <<cbErr, bundle>>
    /\ UNCHANGED <<ctxExpired, scheme, seqNext, logCP, relIdx, bidx>>
    /\ UNCHANGED <<vars, mvars, uvars>>

\* client.LookupIndex: a leaf that is not listed makes the loop go round
\* again, any other failure ends the call.
CBLookup ==
    /\ cbpc = "lookup"
    /\ \E r \in FetchResults(scheme, ctxExpired, relIdx >= 0) :
         IF r.err = "not exist"
         THEN cbpc' = "select" /\ UNCHANGED <<bidx, cbErr, bundle>>
         ELSE IF r.err # ""
         THEN Return("failed to look up leaf index") /\ UNCHANGED bidx
         ELSE bidx' = relIdx /\ cbpc' = "proof" /\ UNCHANGED <<cbErr, bundle>>
    /\ UNCHANGED <<ctxExpired, scheme, seqNext, logCP, relIdx, bst, bcp>>
    /\ UNCHANGED <<vars, mvars, uvars>>

\* The proof builder, the inclusion proof for idx and its verification
\* against cp.  There is no proof for an index the checkpoint does not
\* cover.
CBProof ==
    /\ cbpc = "proof"
    /\ \E r \in FetchResults(scheme, ctxExpired, TRUE) :
         IF r.err # ""
         THEN Return("failed to create new ProofBuilder")
         ELSE IF bidx >= bcp
         THEN Return("failed to create inclusion proof")
         ELSE cbpc' = "fetch" /\ UNCHANGED <<cbErr, bundle>>
    /\ UNCHANGED <<ctxExpired, scheme, seqNext, logCP, relIdx, bst, bcp, bidx>>
    /\ UNCHANGED <<vars, mvars, uvars>>

\* Mutant: the leaf hashes are fetched up to the size the log has by now.
CBFetchLeafHashesLatest ==
    /\ cbpc = "fetch"
    /\ \E r \in FetchResults(scheme, ctxExpired, TRUE) :
         IF r.err # ""
         THEN Return("failed to fetch leaf hashes")
         ELSE /\ cbpc' = "returned"
              /\ cbErr' = ""
              /\ bundle' = [NewCheckpoint |-> bst, LeafHashes |-> logCP]
    /\ UNCHANGED <<ctxExpired, scheme, seqNext, logCP, relIdx, bst, bcp, bidx>>
    /\ UNCHANGED <<vars, mvars, uvars>>

\* client.FetchLeafHashes over [0, st.LatestConsistent.Size), and the bundle
\* of the tracker's raw checkpoint, the release and those leaf hashes.  The
\* bytes of the bundle are ProofBundleOf(bundle).
CBFetchLeafHashes ==
    /\ cbpc = "fetch"
    /\ \E r \in FetchResults(scheme, ctxExpired, TRUE) :
         IF r.err # ""
         THEN Return("failed to fetch leaf hashes")
         ELSE /\ cbpc' = "returned"
              /\ cbErr' = ""
              /\ bundle' = [NewCheckpoint |-> bst, LeafHashes |-> bst]
    /\ UNCHANGED <<ctxExpired, scheme, seqNext, logCP, relIdx, bst, bcp, bidx>>
    /\ UNCHANGED <<vars, mvars, uvars>>

\* The deadline of context.WithTimeout passes.
CtxExpire ==
    /\ cbpc \notin {"idle", "returned"}
    /\ ~ctxExpired
    /\ ctxExpired' = TRUE
    /\ UNCHANGED <<cbpc, scheme, seqNext, logCP, relIdx, bst, bcp, bidx, bundle, cbErr>>
    /\ UNCHANGED <<vars, mvars, uvars>>

\* The log sequences a leaf: the release, if it is not in yet, or another.
LogSequence ==
    /\ cbpc \notin {"idle", "returned"}
    /\ seqNext < MaxLog
    /\ seqNext' = seqNext + 1
    /\ \/ relIdx = -1 /\ relIdx' = seqNext
       \/ UNCHANGED relIdx
    /\ UNCHANGED <<cbpc, ctxExpired, scheme, logCP, bst, bcp, bidx, bundle, cbErr>>
    /\ UNCHANGED <<vars, mvars, uvars>>

\* The log integrates sequenced leaves and serves a larger checkpoint.
LogIntegrate ==
    /\ cbpc \notin {"idle", "returned"}
    /\ logCP < seqNext
    /\ logCP' \in (logCP + 1)..seqNext
    /\ UNCHANGED <<cbpc, ctxExpired, scheme, seqNext, relIdx, bst, bcp, bidx, bundle, cbErr>>
    /\ UNCHANGED <<vars, mvars, uvars>>

CreateBundleNext ==
    \/ CBStart
    \/ CBSelectTick
    \/ CBSelectDone
    \/ CBUpdate
    \/ CBLookup
    \/ CBProof
    \/ CBFetchLeafHashes
    \/ CtxExpire
    \/ LogSequence
    \/ LogIntegrate

\* A step of createBundle itself.
CBStep ==
    \/ CBStart
    \/ CBSelectTick
    \/ CBSelectDone
    \/ CBUpdate
    \/ CBLookup
    \/ CBProof
    \/ CBFetchLeafHashes

CreateBundleSpec ==
    CreateBundleInit /\ [][CreateBundleNext]_<<cvars, vars, mvars, uvars>>

\* createBundle keeps running and time passes (weak fairness); the select
\* takes the case of ctx.Done() at some point when it keeps finding it
\* ready (strong fairness): after ticker.Reset(5 * time.Second) the ticker
\* is not ready when the loop comes round, and of two ready cases Go takes
\* one at random.
CreateBundleLive ==
    /\ CreateBundleInit
    /\ [][CreateBundleNext]_<<cvars, vars, mvars, uvars>>
    /\ WF_cvars(CBStep)
    /\ WF_cvars(CtxExpire)
    /\ SF_cvars(CBSelectDone)

C36_UncoveredIndexRetries ==
    [][ (cbpc = "proof" /\ bidx >= bst /\ cbpc' = "returned")
            => cbErr' = "failed to create new ProofBuilder" ]_cvars

(***************************************************************************)
(* The Bundle of api/verify/verify.go, which takes the digest of the       *)
(* firmware image.  It runs on the variables of Bundle; its first and      *)
(* fifth steps and its three checks after the loop are those of            *)
(* ParseNewCheckpoint, ParseRelease and FlagsError.                        *)
(***************************************************************************)
\* oldCPFound after a leaf: set at the first running root equal to the old
\* checkpoint's hash.
VerifyOldCPFoundAfter(found, r, cp) ==
    IF ~found THEN BytesEqual(r, cp.Hash) ELSE found

\* newCPFound after a leaf: set at the first running root equal to the new
\* checkpoint's hash.
VerifyNewCPFoundAfter(found, r, cp) ==
    IF ~found THEN BytesEqual(r, cp.Hash) ELSE found

\* The check of the image's digest against the manifest.
ImageError(release, hash) ==
    IF FirmwareArtifactName \notin DOMAIN release.ArtifactSHA256
    THEN "expected firmware artifact not present in FirmwareRelease"
    ELSE IF ~BytesEqual(hash, release.ArtifactSHA256[FirmwareArtifactName])
    THEN "firmware hash does not match claimed hash"
    ELSE ""

FirmwareHashes == {ImageDigest, WrongDigest}

VerifyBundleInit ==
    /\ \E release \in Releases :
         \E leaves \in LeafLists(release) :
           /\ \E cp \in NewCheckpoints(leaves) :
                pb = [NewCheckpoint |-> cp, FirmwareRelease |-> release,
                      LeafHashes |-> leaves]
           /\ oldCP \in OldCheckpointsFor(leaves, release)
    /\ logSigV = LogKey
    /\ frSigV = FwKey
    /\ artifactHashes = <<>>
    /\ firmwareHash \in FirmwareHashes
    /\ origin = TestLogOrigin
    /\ pc = "start"
    /\ newCP = ZeroCheckpoint
    /\ manifestHash = <<>>
    /\ tree = NewEmptyRange
    /\ manifestFound = FALSE
    /\ oldCPFound = FALSE
    /\ newCPFound = FALSE
    /\ fr = ZeroFirmwareRelease
    /\ todo = {}
    /\ err = ""
    /\ MonitorIdle
    /\ UnmarshalIdle
    /\ CreateBundleIdle

\* Check the signature on the new checkpoint and parse it; then the set-up
\* of the loop.
VerifyOpenCheckpoint ==
    /\ pc = "start"
    /\ LET p == ParseNewCheckpoint(pb.NewCheckpoint, logSigV, newCP)
       IN  /\ newCP' = p.c
           /\ IF p.err # ""
              THEN Fail(p.err) /\ UNCHANGED <<manifestHash, tree>>
              ELSE /\ pc' = "loop"
                   /\ manifestHash' = HashLeaf(NoteBytes(pb.FirmwareRelease))
                   /\ tree' = NewEmptyRange
                   /\ UNCHANGED err
    /\ UNCHANGED <<args, manifestFound, oldCPFound, newCPFound, fr, todo>>
    /\ UNCHANGED <<mvars, uvars, cvars>>

\* One iteration of the loop over pb.LeafHashes.
VerifyLoopStep ==
    /\ pc = "loop"
    /\ tree.end < Len(pb.LeafHashes)
    /\ LET leafHash == pb.LeafHashes[tree.end + 1]
           t == RangeAppend(tree, leafHash)
           r == GetRootHash(t)
       IN  /\ tree' = t
           /\ manifestFound' = ManifestFoundAfter(manifestFound, leafHash, manifestHash)
           /\ oldCPFound' = VerifyOldCPFoundAfter(oldCPFound, r, oldCP)
           /\ newCPFound' = VerifyNewCPFoundAfter(newCPFound, r, newCP)
    /\ UNCHANGED <<args, pc, newCP, manifestHash, fr, todo, err>>
    /\ UNCHANGED <<mvars, uvars, cvars>>

\* After the loop: the old checkpoint, the new checkpoint, the manifest.
VerifyCheckFlags ==
    /\ pc = "loop"
    /\ tree.end = Len(pb.LeafHashes)
    /\ LET e == FlagsError(oldCPFound, newCPFound, manifestFound, oldCP)
       IN  IF e # "" THEN Fail(e) ELSE pc' = "release" /\ UNCHANGED err
    /\ UNCHANGED <<args, locals>>
    /\ UNCHANGED <<mvars, uvars, cvars>>

\* Check the signature on the FirmwareRelease and parse it.
VerifyOpenRelease ==
    /\ pc = "release"
    /\ LET p == ParseRelease(pb.FirmwareRelease, frSigV)
       IN  /\ fr' = p.fr
           /\ IF p.err # "" THEN Fail(p.err) ELSE pc' = "image" /\ UNCHANGED err
    /\ UNCHANGED <<args, newCP, manifestHash, tree, manifestFound, oldCPFound, newCPFound, todo>>
    /\ UNCHANGED <<mvars, uvars, cvars>>

\* The image's digest against the manifest's, and the return.
VerifyCheckImage ==
    /\ pc = "image"
    /\ pc' = "done"
    /\ err' = ImageError(fr, firmwareHash)
    /\ UNCHANGED <<args, locals>>
    /\ UNCHANGED <<mvars, uvars, cvars>>

VerifyBundleNext ==
    \/ VerifyOpenCheckpoint
    \/ VerifyLoopStep
    \/ VerifyCheckFlags
    \/ VerifyOpenRelease
    \/ VerifyCheckImage

VerifyBundleSpec == VerifyBundleInit /\ [][VerifyBundleNext]_vars

\* C37: the Bundle of api/verify/verify.go accepts only if the old
\* checkpoint, when it has a size, is the root of exactly the first
\* oldCP.Size leaf hashes, and the new checkpoint the root of exactly the
\* first newCP.Size leaf hashes; a match at another prefix does not count.
C37_VerifyAnchored ==
    Accepted =>
        /\ oldCP.Size > 0 =>
              /\ oldCP.Size <= Len(pb.LeafHashes)
              /\ PrefixRoot(pb.LeafHashes, oldCP.Size) = oldCP.Hash
        /\ SignedCheckpoint.c.Size \in 1..Len(pb.LeafHashes)
        /\ PrefixRoot(pb.LeafHashes, SignedCheckpoint.c.Size) = SignedCheckpoint.c.Hash

\* C38: the persisted state never runs ahead of the handled leaves: when the
\* state file holds a checkpoint of size n, every leaf in [0, n) has gone
\* through verification and the handler without error, in this run or, for
\* the checkpoint the run found in the file, in an earlier one.
C38_StateNotAheadOfHandled ==
    Len(file) = 2 => file[2].Size <= handledTo

\* C39: every ProofBundle createBundle returns is consistent in itself: its
\* NewCheckpoint opens under the log's key, its LeafHashes has as many
\* entries as that checkpoint's size, the checkpoint is the one the
\* inclusion proof of the release was verified under, its root is the root
\* of the leaf hashes, and HashLeaf(release) is one of them: the leaf-count,
\* new-root and inclusion checks of Bundle with an old checkpoint of size 0
\* pass.
C39_BundleConsistent ==
    (cbpc = "returned" /\ cbErr = "") =>
        LET b == ProofBundleOf(bundle)
            p == ParseNewCheckpoint(b.NewCheckpoint, LogKey, ZeroCheckpoint)
        IN  /\ p.err = ""
            /\ LeafCountOK(b.LeafHashes, p.c)
            /\ p.c.Size = bcp
            /\ bidx < bcp
            /\ b.LeafHashes[bidx + 1] = HashLeaf(NoteBytes(b.FirmwareRelease))
            /\ MerkleTreeHash(b.LeafHashes) = p.c.Hash
            /\ FlagsError(FALSE, TRUE,
                          \E k \in 1..Len(b.LeafHashes) :
                              b.LeafHashes[k] = HashLeaf(NoteBytes(b.FirmwareRelease)),
                          ZeroCheckpoint) = ""

\* A bundle of two leaves or more has been returned while the log has
\* already issued a larger checkpoint than the bundle's.
C39_Witness ==
    /\ cbpc = "returned"
    /\ cbErr = ""
    /\ bundle.LeafHashes >= 2
    /\ logCP > bst

=============================================================================
